---- MODULE Spec2Model ----
(***************************************************************************)
(* The render-job lifecycle of the Browser7 client (src/src/index.js):     *)
(* Browser7.render submits a job (createRender), reports 'started', waits  *)
(* 2000 ms, then polls getRender up to maxAttempts times, reporting every  *)
(* poll and the terminal status.                                           *)
(*                                                                         *)
(* One render call is one process.  Its actions are the pieces of the      *)
(* async function between two awaits that an observer of the call can tell *)
(* apart: the call itself (up to the POST), the POST's answer (up to the   *)
(* first setTimeout), a timer firing (up to the next GET) and the GET's    *)
(* answer (body parsing, decoding, the events and the branch on status, up *)
(* to the next setTimeout, the return or the throw).                       *)
(***************************************************************************)
EXTENDS Integers, Sequences, FiniteSets, TLC

VARIABLES
    suspended,   \* the render invocation of the same client that is not running
                 \* now: its arguments, locals and logs
    client,      \* this.apiKey, this.baseUrl
    helperCall,  \* a call of a static wait-action helper: its name and arguments
    call,        \* the url and options arguments of render / createRender, and
                 \* the method called when it is not render
    onProgress,  \* whether render was given a progress callback
    asyncCalls,  \* how many of the next callback calls may return a promise
    calls,       \* what each callback call did, in order (one per event)
    pc,          \* where the render call is
    renderId,    \* const { renderId } of render
    attempt,     \* the loop variable of render
    events,      \* the events passed to onProgress so far, in order
    requests,    \* the HTTP requests issued so far, in order
    created,     \* the answer the server gave to the job submission
    served,      \* the answers the server gave to the GET requests, in order
    sleeps,      \* the setTimeout delays taken so far (ms), in order
    outcome      \* what the promise returned by render settled to

vars == <<suspended, client, helperCall, call, onProgress, asyncCalls, calls, pc, renderId,
          attempt, events, requests, created, served, sleeps, outcome>>

----------------------------------------------------------------------------
(* JavaScript values, tagged with their type.                              *)

Undef == [t |-> "undefined"]

\* A string is the list of the encodings applied to a text, outermost first,
\* ending with the text: Str("a") is the plain text "a".
Str(s) == [t |-> "string", v |-> <<s>>]

Num(n) == [t |-> "number", v |-> n]

\* ToBoolean of a JavaScript value: the test of `if (x)`, `x ? a : b`, `x || y`.
Truthy(x) ==
    CASE x.t = "undefined" -> FALSE
      [] x.t = "string"    -> x.v # <<"">>
      [] x.t = "number"    -> x.v # 0
      [] x.t = "null"      -> FALSE
      [] x.t = "boolean"   -> x.v
      [] OTHER             -> TRUE

----------------------------------------------------------------------------
(* Program constants.                                                      *)

maxAttempts == 60

InitialDelayMs == 2000

DefaultRetryMs == 1000

MsPerSecond == 1000

DefaultBaseUrl == "https://api.browser7.com/v1"

----------------------------------------------------------------------------
(* Bounds of the environment.                                              *)

\* The server answers the first FreePolls status fetches with any non-terminal
\* result; after them a non-terminal answer repeats the previous one.  A
\* terminal answer or a transport failure may come at any poll.
FreePolls == 2

\* When two render calls run at once the server answers 'processing' to at
\* most MaxConcurrentPolls status fetches of a job, then ends it.
MaxConcurrentPolls == 2

\* The first MaxAsyncCalls calls of an asynchronous callback may return a
\* promise; its later calls return or throw.
MaxAsyncCalls == 2

----------------------------------------------------------------------------
(* The wire encodings of the payload fields.                               *)

\* base64(text): the text under one more encoding.
Base64(text) == [t |-> "string", v |-> <<"base64">> \o text.v]

\* gzip(utf8(text)), the bytes read as a string.
Gzip(text) == [t |-> "string", v |-> <<"gzip">> \o text.v]

\* base64(gzip(utf8(text))) as the server sends it.
Base64Gzip(text) == [t |-> "string", v |-> <<"base64", "gzip">> \o text.v]

\* The text of the JSON serialisation of value.
Json(value) == [t |-> "string", v |-> <<"json", value>>]

\* Buffer.from(value, 'base64') throws a TypeError for a value that is
\* neither a string nor an array (a number, a boolean, a plain object).
BufferFromThrows(x) == x.t \notin {"string", "array"}

\* Buffer.from(value, 'base64') of a string or an array: bytes that are the
\* base64 decoding of the string when it is one, other bytes when it is not.
BufferFromBase64(x) ==
    IF x.t = "string" /\ Head(x.v) = "base64"
    THEN [t |-> "buffer", v |-> Tail(x.v)]
    ELSE [t |-> "buffer", v |-> <<"garbage">>]

\* zlib.gunzip rejects a buffer that is not a gzip stream.
GunzipOk(buf) == Head(buf.v) = "gzip"

\* decompressed.toString('utf-8')
GunzipToString(buf) == [t |-> "string", v |-> Tail(buf.v)]

\* Mutant: the html field is returned as received, never decoded.
DecodeHtmlSkipped(html) == html

\* Mutant: the catch block clears the field it could not decode.
DecodeHtmlClearsOnFailure(html) ==
    IF ~Truthy(html) THEN html
    ELSE IF BufferFromThrows(html) THEN Undef
    ELSE LET buffer == BufferFromBase64(html)
         IN  IF GunzipOk(buffer) THEN GunzipToString(buffer) ELSE Undef

\* getRender's first try/catch: result.html decoded when it decodes, left as
\* received when it is falsy or when the chain throws.
DecodeHtml(html) ==
    IF ~Truthy(html) \/ BufferFromThrows(html) THEN html
    ELSE LET buffer == BufferFromBase64(html)
         IN  IF GunzipOk(buffer) THEN GunzipToString(buffer) ELSE html

\* JSON.parse(text) throws a SyntaxError for a text that is not JSON.
JsonParseOk(text) == Head(text.v) = "json"

\* JSON.parse(text)
JsonParse(text) == text.v[2]

\* Mutant: result.fetchResponses is assigned the decompressed text before
\* it is parsed.
DecodeFetchResponsesTextFirst(fetchResponses) ==
    IF ~Truthy(fetchResponses) \/ BufferFromThrows(fetchResponses) THEN fetchResponses
    ELSE LET buffer == BufferFromBase64(fetchResponses)
         IN  IF ~GunzipOk(buffer) THEN fetchResponses
             ELSE LET jsonString == GunzipToString(buffer)
                  IN  IF JsonParseOk(jsonString) THEN JsonParse(jsonString)
                      ELSE jsonString

\* Mutant: result.fetchResponses is the decompressed text, never parsed.
DecodeFetchResponsesUnparsed(fetchResponses) ==
    IF ~Truthy(fetchResponses) \/ BufferFromThrows(fetchResponses) THEN fetchResponses
    ELSE LET buffer == BufferFromBase64(fetchResponses)
         IN  IF ~GunzipOk(buffer) THEN fetchResponses ELSE GunzipToString(buffer)

\* getRender's second try/catch: result.fetchResponses decoded and parsed
\* when the whole chain succeeds, left as received otherwise.
DecodeFetchResponses(fetchResponses) ==
    IF ~Truthy(fetchResponses) \/ BufferFromThrows(fetchResponses) THEN fetchResponses
    ELSE LET buffer == BufferFromBase64(fetchResponses)
         IN  IF ~GunzipOk(buffer) THEN fetchResponses
             ELSE LET jsonString == GunzipToString(buffer)
                  IN  IF JsonParseOk(jsonString) THEN JsonParse(jsonString)
                      ELSE fetchResponses

\* Mutant: the fields are decoded only once the render is completed.
DecodedOnCompletion(wire) ==
    IF wire.status # Str("completed") THEN wire
    ELSE [wire EXCEPT !.html = DecodeHtml(wire.html),
                      !.fetchResponses = DecodeFetchResponses(wire.fetchResponses)]

\* Mutant: both fields are decoded in one try block, so a failure on html
\* skips fetchResponses.
DecodedInOneTry(wire) ==
    IF Truthy(wire.html) /\ DecodeHtml(wire.html) = wire.html THEN wire
    ELSE [wire EXCEPT !.html = DecodeHtml(wire.html),
                      !.fetchResponses = DecodeFetchResponses(wire.fetchResponses)]

\* getRender after a 2xx answer: the parsed body with html and
\* fetchResponses decoded, each in its own try/catch.
Decoded(wire) ==
    [wire EXCEPT !.html = DecodeHtml(wire.html),
                 !.fetchResponses = DecodeFetchResponses(wire.fetchResponses)]

----------------------------------------------------------------------------
(* The server, as the client sees it.                                      *)

RenderIds == {"r1", "r2"}

RetryAfterValues == {Undef, Num(0), Num(2)}

ErrorValues == {Undef, Str(""), Str("blocked")}

HtmlValues == {Undef, Base64Gzip(Str("<html></html>"))}

\* The body of a 2xx answer to GET /renders/{renderId}.
Result(status, retryAfter, error, html) ==
    [status |-> status, retryAfter |-> retryAfter, error |-> error, html |-> html,
     fetchResponses |-> Undef]

\* 'processing' with or without a retry hint, and a status the client does
\* not know.
NonTerminalResults ==
    { Result(Str("processing"), ra, Undef, Undef) : ra \in RetryAfterValues }
    \cup { Result(Str("created"), Undef, Undef, Undef) }

CompletedResults ==
    { Result(Str("completed"), Undef, Undef, h) : h \in HtmlValues }

FailedResults ==
    { Result(Str("failed"), Undef, e, Undef) : e \in ErrorValues }

\* What the server may answer to the n-th status fetch, given its answers so far.
ServerResults(n, before) ==
    CompletedResults \cup FailedResults \cup
    IF n <= FreePolls THEN NonTerminalResults
    ELSE { r \in NonTerminalResults : r = before[Len(before)].body }

\* Results whose status is not one the client tests for: none,
\* 'processing', an unknown one, and 'completed' in another case.
OtherStatusResults ==
    { Result(status, Undef, Undef, Undef) :
        status \in {Undef, Str("processing"), Str("queued"), Str("Completed")} }

\* What such a server may answer to the n-th status fetch.
OtherStatusServerResults(n, before) ==
    { Result(Str("completed"), Undef, Undef, Undef),
      Result(Str("failed"), Undef, Undef, Undef) }
    \cup IF n <= FreePolls THEN OtherStatusResults
         ELSE { r \in OtherStatusResults : r = before[Len(before)].body }

\* The fetchResponses of a render, decoded: one captured response.
Responses ==
    [t |-> "array",
     v |-> <<[url |-> Str("https://example.com/a.js"), status |-> Num(200)]>>]

\* What the server may answer to the n-th status fetch of one of two jobs
\* that run at once: the job is done (html encoded, empty or absent,
\* fetchResponses encoded or absent), has failed, or is in progress.
ConcurrentServerResults(n) ==
    { [Result(Str("completed"), Undef, Undef, html) EXCEPT !.fetchResponses = fr] :
        html \in {Undef, Str(""), Base64Gzip(Str("<html></html>"))},
        fr \in {Undef, Base64Gzip(Json(Responses))} }
    \cup { Result(Str("failed"), Undef, Str("blocked"), Undef) }
    \cup IF n <= MaxConcurrentPolls
         THEN { Result(Str("processing"), Undef, Undef, Undef) } ELSE {}

\* The html field as a server may send it: absent, empty, plain, encoded
\* (also of the empty text, also twice), under one encoding only, or not a
\* string.
WireHtmlValues ==
    { Undef, Str(""), Str("<html></html>"),
      Base64Gzip(Str("<html></html>")), Base64Gzip(Str("")),
      Base64Gzip(Base64Gzip(Str("<html></html>"))),
      Base64(Str("<html></html>")), Gzip(Str("<html></html>")),
      [t |-> "array", v |-> <<>>], Num(7) }

\* The fetchResponses field as a server may send it: absent, empty,
\* structured already, plain JSON text, encoded, encoded text that is not
\* JSON, or under one encoding only.
WireFetchResponsesValues ==
    { Undef, Str(""), Responses, Json(Responses),
      Base64Gzip(Json(Responses)), Base64Gzip(Json([t |-> "array", v |-> <<>>])),
      Base64Gzip(Str("not json")), Base64(Json(Responses)), Num(7) }

WireStatusValues ==
    { Undef, Str("processing"), Str("completed"), Str("failed"), Str("queued") }

\* The bodies of the 2xx answers to a status fetch made by a direct call of
\* getRender.
WireResults ==
    { [Result(status, Num(2), Str("blocked"), html) EXCEPT !.fetchResponses = fr] :
        status \in WireStatusValues, html \in WireHtmlValues,
        fr \in WireFetchResponsesValues }

\* The bodies a render call is answered with when the fields are sent at
\* every status: one 'processing' body, so that the answers so far are the
\* number of polls, and the terminal bodies.
WireRenderResults ==
    { [Result(Str("completed"), Undef, Undef, html) EXCEPT !.fetchResponses = fr] :
        html \in {Undef, Str("<html></html>"), Base64Gzip(Str("<html></html>"))},
        fr \in {Undef, Base64Gzip(Json(Responses)), Base64Gzip(Str("not json"))} }
    \cup { [Result(Str("processing"), Undef, Undef, Base64Gzip(Str("<html></html>")))
               EXCEPT !.fetchResponses = Base64Gzip(Json(Responses))],
           Result(Str("failed"), Undef, Str("blocked"), Undef) }

\* The body of a 2xx answer to GET /account/balance.
Balance == [totalBalanceCents |-> Num(1050), totalBalanceFormatted |-> Str("$10.50")]

\* A transport answer: the fetch rejected, a non-2xx answer, or a 2xx answer.
ConnectionFailure == [kind |-> "rejected", cause |-> "ECONNREFUSED"]

HttpFailure == [kind |-> "http", status |-> 500, text |-> "oops"]

Ok(body) == [kind |-> "ok", body |-> body]

\* No answer yet.
NoAnswer == [kind |-> "none"]

\* The ways a fetch rejects and the non-2xx answers.
ConnectionFailures ==
    { [kind |-> "rejected", cause |-> c] : c \in {"ECONNREFUSED", "ETIMEDOUT"} }

HttpFailures ==
    { [kind |-> "http", status |-> st, text |-> tx] : st \in {404, 500}, tx \in {"", "oops"} }

----------------------------------------------------------------------------
(* The options of a render and the payload createRender submits.  An       *)
(* options object gives every key a value; Undef is the value of a key the *)
(* caller did not set.  A payload holds only the keys it was given.        *)

Null == [t |-> "null"]

Bool(b) == [t |-> "boolean", v |-> b]

\* The keys createRender forwards, in the order of its ten if statements.
ApiOptionKeys ==
    <<"countryCode", "city", "fetchUrls", "waitFor", "captcha", "blockImages",
      "includeScreenshot", "screenshotFormat", "screenshotQuality",
      "screenshotFullPage">>

\* A key of the options createRender does not know.
ForeignOptionKeys == {"delay"}

OptionKeys == {ApiOptionKeys[i] : i \in 1..Len(ApiOptionKeys)} \cup ForeignOptionKeys

\* The values a caller sets a key to; some are falsy, one is null.
OptionValues(key) ==
    CASE key = "countryCode"        -> {Str("US")}
      [] key = "city"               -> {Str("")}
      [] key = "fetchUrls"          -> {[t |-> "array", v |-> <<>>]}
      [] key = "waitFor"            -> {[t |-> "array", v |-> <<[type |-> Str("delay"), duration |-> Num(100)]>>]}
      [] key = "captcha"            -> {Null}
      [] key = "blockImages"        -> {Bool(FALSE), Bool(TRUE)}
      [] key = "includeScreenshot"  -> {Bool(TRUE)}
      [] key = "screenshotFormat"   -> {Str("png")}
      [] key = "screenshotQuality"  -> {Num(0)}
      [] key = "screenshotFullPage" -> {Bool(FALSE)}
      [] OTHER                      -> {Num(500)}

\* options = {}
NoOptions == [key \in OptionKeys |-> Undef]

\* payload with key set to value.
With(payload, key, value) ==
    [k \in DOMAIN payload \cup {key} |-> IF k = key THEN value ELSE payload[k]]

\* The options objects over keys: each key not set, or set to one of its
\* values.
RECURSIVE OptionsOver(_)
OptionsOver(keys) ==
    IF keys = {} THEN { [k \in {} |-> Undef] }
    ELSE LET key == CHOOSE k \in keys : TRUE
         IN  { With(o, key, v) : o \in OptionsOver(keys \ {key}),
                                 v \in OptionValues(key) \cup {Undef} }

AllOptions == OptionsOver(OptionKeys)

\* Mutant: if (options.key) payload.key = options.key;
ForwardIfTruthy(payload, options, key) ==
    IF Truthy(options[key]) THEN With(payload, key, options[key]) ELSE payload

\* if (options.key !== undefined) payload.key = options.key;
Forward(payload, options, key) ==
    IF options[key] # Undef THEN With(payload, key, options[key]) ELSE payload

\* The ten if statements of createRender, from the i-th on.
RECURSIVE ForwardFrom(_, _, _)
ForwardFrom(payload, options, i) ==
    IF i > Len(ApiOptionKeys) THEN payload
    ELSE ForwardFrom(Forward(payload, options, ApiOptionKeys[i]), options, i + 1)

\* const payload = { url }; and the ten if statements.
Payload(url, options) == ForwardFrom([k \in {"url"} |-> Str(url)], options, 1)

----------------------------------------------------------------------------
(* The static wait-action helpers.  A helper is called with a list of      *)
(* arguments; a parameter past the end of the list is undefined.  A        *)
(* descriptor holds only the keys it was given.                            *)

\* timeout = 30000
DefaultTimeoutMs == 30000

\* The value of the i-th parameter.
Arg(args, i) == IF i <= Len(args) THEN args[i] ELSE Undef

\* A parameter with a default value (param = default): the default stands
\* in for undefined, and for nothing else.
Default(value, default) == IF value = Undef THEN default ELSE value

waitForDelay(args) ==
    [type |-> Str("delay"), duration |-> Arg(args, 1)]

waitForSelector(args) ==
    [type     |-> Str("selector"),
     selector |-> Arg(args, 1),
     state    |-> Default(Arg(args, 2), Str("visible")),
     timeout  |-> Default(Arg(args, 3), Num(DefaultTimeoutMs))]

\* Mutant: if (selector !== undefined) action.selector = selector;
waitForTextIfDefined(args) ==
    LET action == [type    |-> Str("text"),
                   text    |-> Arg(args, 1),
                   timeout |-> Default(Arg(args, 3), Num(DefaultTimeoutMs))]
    IN  IF Arg(args, 2) # Undef THEN With(action, "selector", Arg(args, 2)) ELSE action

\* Mutant: the selector is put into the literal, as waitForClick does.
waitForTextWithSelector(args) ==
    [type     |-> Str("text"),
     text     |-> Arg(args, 1),
     selector |-> Arg(args, 2),
     timeout  |-> Default(Arg(args, 3), Num(DefaultTimeoutMs))]

waitForText(args) ==
    LET action == [type    |-> Str("text"),
                   text    |-> Arg(args, 1),
                   timeout |-> Default(Arg(args, 3), Num(DefaultTimeoutMs))]
    IN  IF Truthy(Arg(args, 2)) THEN With(action, "selector", Arg(args, 2)) ELSE action

\* Mutant: timeout: timeout || 30000
waitForClickOrDefault(args) ==
    [type     |-> Str("click"),
     selector |-> Arg(args, 1),
     timeout  |-> IF Truthy(Arg(args, 2)) THEN Arg(args, 2) ELSE Num(DefaultTimeoutMs)]

waitForClick(args) ==
    [type     |-> Str("click"),
     selector |-> Arg(args, 1),
     timeout  |-> Default(Arg(args, 2), Num(DefaultTimeoutMs))]

HelperNames == {"waitForDelay", "waitForSelector", "waitForText", "waitForClick"}

\* Browser7.fn(...args)
Helper(fn, args) ==
    CASE fn = "waitForDelay"    -> waitForDelay(args)
      [] fn = "waitForSelector" -> waitForSelector(args)
      [] fn = "waitForText"     -> waitForText(args)
      [] fn = "waitForClick"    -> waitForClick(args)

\* The values callers pass: in and out of the documented ranges, falsy
\* ones, null, and an explicit undefined.
DurationValues == {Undef, Num(0), Num(100), Num(70000)}
TimeoutValues == {Undef, Null, Num(0), Num(5000), Num(70000)}
SelectorValues == {Undef, Null, Str(""), Str(".sel")}
StateValues == {Undef, Str("hidden"), Str("bogus")}
TextValues == {Str(""), Str("Hello")}

\* The argument lists of up to three arguments drawn from first, second
\* and third.
ArgLists(first, second, third) ==
    {<<>>} \cup {<<a>> : a \in first}
           \cup {<<a, b>> : a \in first, b \in second}
           \cup {<<a, b, c>> : a \in first, b \in second, c \in third}

HelperCalls ==
    [fn : {"waitForDelay"}, args : ArgLists(DurationValues, {}, {})]
    \cup [fn : {"waitForSelector"},
          args : ArgLists(SelectorValues, StateValues, TimeoutValues)]
    \cup [fn : {"waitForText"},
          args : ArgLists(TextValues, SelectorValues, TimeoutValues)]
    \cup [fn : {"waitForClick"}, args : ArgLists(SelectorValues, TimeoutValues, {})]

\* No helper was called.
NoHelperCall == [fn |-> "none", args |-> <<>>]

----------------------------------------------------------------------------
(* The constructor.  Before `new Browser7(options)` is evaluated the       *)
(* client is the options it will be built from; afterwards it is the       *)
(* object, or the error the constructor threw.                             *)

\* The characters of a JavaScript string.
Text(s) == s.v[Len(s.v)]

\* The options of the constructor: no key set is {} (the default).
ConstructorOptions ==
    [apiKey : {Undef, Str(""), Str("key")},
     baseUrl : {Undef, Str(""), Str("http://localhost:3000/v1")}]

New(options) == [options |-> options]

\* Mutant: the constructor without the test of options.apiKey.
Browser7Unchecked(options) ==
    [apiKey  |-> IF options.apiKey = Undef THEN "undefined" ELSE Text(options.apiKey),
     baseUrl |-> IF Truthy(options.baseUrl) THEN Text(options.baseUrl)
                 ELSE DefaultBaseUrl]

\* constructor(options = {})
Browser7(options) ==
    IF ~Truthy(options.apiKey) THEN [error |-> <<"API key is required">>]
    ELSE [apiKey  |-> Text(options.apiKey),
          baseUrl |-> IF Truthy(options.baseUrl) THEN Text(options.baseUrl)
                      ELSE DefaultBaseUrl]

\* The constructor returned: there is a client to call methods on.
IsClient == "baseUrl" \in DOMAIN client

----------------------------------------------------------------------------
(* Requests, errors and events.                                            *)

\* `${this.baseUrl}/renders`
RendersUrl == <<client.baseUrl, "/renders">>

\* `${this.baseUrl}/renders/${renderId}`
StatusUrl(id) == <<client.baseUrl, "/renders/">> \o id.v

\* `${this.baseUrl}/account/balance`
BalanceUrl == <<client.baseUrl, "/account/balance">>

\* fetch(url, { method: 'POST', ..., body: JSON.stringify(payload) })
Post(url, payload) == [method |-> "POST", url |-> url, body |-> payload]

Get(url) == [method |-> "GET", url |-> url]

\* new Error(`Failed to connect to ${url}: ${error.message}`)
ConnectError(url, ans) == <<"Failed to connect to ">> \o url \o <<": ", ans.cause>>

\* new Error(`${what}${response.status} ${text}`)
HttpError(what, ans) == <<what, ToString(ans.status), " ", ans.text>>

\* Mutant: `result.error ?? 'Unknown error'`, the fallback for undefined only.
RenderFailedErrorNullish(result) ==
    <<"Render failed: ">> \o
    (IF result.error # Undef THEN result.error.v ELSE <<"Unknown error">>)

\* `Render failed: ${result.error || 'Unknown error'}`
RenderFailedError(result) ==
    <<"Render failed: ">> \o
    (IF Truthy(result.error) THEN result.error.v ELSE <<"Unknown error">>)

\* `Render timed out after ${maxAttempts} attempts`
TimeoutError == <<"Render timed out after ", ToString(maxAttempts), " attempts">>

\* What a throwing progress callback throws.
CallbackError == <<"thrown by onProgress">>

StartedEvent(id) ==
    [type |-> "started", renderId |-> id, status |-> Undef, attempt |-> Undef,
     retryAfter |-> Undef]

\* Mutant: the polling event carries the loop variable itself (0-based).
PollingEventZeroBased(id, result, a) ==
    [type |-> "polling", renderId |-> id, status |-> result.status,
     attempt |-> Num(a), retryAfter |-> result.retryAfter]

\* Mutant: the polling event without the server's retry hint.
PollingEventNoHint(id, result, a) ==
    [type |-> "polling", renderId |-> id, status |-> result.status,
     attempt |-> Num(a + 1), retryAfter |-> Undef]

PollingEvent(id, result, a) ==
    [type |-> "polling", renderId |-> id, status |-> result.status,
     attempt |-> Num(a + 1), retryAfter |-> result.retryAfter]

\* Mutant: the completed event takes its renderId from the result, which
\* has none.
CompletedEventResultId(id, result) ==
    [type |-> "completed", renderId |-> Undef, status |-> result.status,
     attempt |-> Undef, retryAfter |-> Undef]

CompletedEvent(id, result) ==
    [type |-> "completed", renderId |-> id, status |-> result.status,
     attempt |-> Undef, retryAfter |-> Undef]

FailedEvent(id, result) ==
    [type |-> "failed", renderId |-> id, status |-> result.status,
     attempt |-> Undef, retryAfter |-> Undef]

\* if (onProgress) { onProgress(event) }
Emit(evs, event) == IF onProgress THEN Append(evs, event) ELSE evs

\* The k-th callback call from now returns, throws, or (an asynchronous
\* callback) returns a promise; with no callback nothing is called.
CallbackOutcomes(k) ==
    IF ~onProgress THEN {"returns"}
    ELSE {"returns", "throws"} \cup (IF asyncCalls >= k THEN {"async"} ELSE {})

\* What is known of a callback call once it is over: a promise is pending.
CallState(cb) == IF cb = "async" THEN "pending" ELSE cb

\* The callback calls of one piece of render, which emitted the events from
\* `before` to `after`, added to the calls so far.
Called(before, after, cbs) ==
    calls \o [i \in 1..(Len(after) - Len(before)) |-> CallState(cbs[i])]

\* The budget of asynchronous calls after that piece.
AsyncCallsLeft(before, after) ==
    IF asyncCalls > Len(after) - Len(before)
    THEN asyncCalls - (Len(after) - Len(before)) ELSE 0

\* Mutant: await onProgress(event), with a promise that rejects.
ThrowsAwaited(cb) == onProgress /\ cb \in {"throws", "async"}

\* The callback call threw: the exception leaves render.
Throws(cb) == onProgress /\ cb = "throws"

----------------------------------------------------------------------------
(* The pieces of render.                                                   *)

Pending == [kind |-> "pending", value |-> Undef, error |-> <<>>]

Returned(result) == [kind |-> "returned", value |-> result, error |-> <<>>]

Thrown(error) == [kind |-> "thrown", value |-> Undef, error |-> error]

\* Where a piece of render leaves the call.
Ends(evs, o) == [pc |-> "done", events |-> evs, sleeps |-> sleeps, outcome |-> o]

\* Mutant: the timer's promise is never resolved.
WaitsNeverResolved(evs, at, ms) ==
    [pc |-> "hung", events |-> evs, sleeps |-> Append(sleeps, ms), outcome |-> outcome]

Waits(evs, at, ms) ==
    [pc |-> at, events |-> evs, sleeps |-> Append(sleeps, ms), outcome |-> outcome]

\* result.status === 'completed'
IsCompleted(result) == result.status = Str("completed")

\* Mutant: every status but 'completed' and 'processing' counts as failed.
IsFailedUnlessProcessing(result) ==
    result.status \notin {Str("completed"), Str("processing")}

\* result.status === 'failed'
IsFailed(result) == result.status = Str("failed")

\* Mutant: result.retryAfter !== undefined ? result.retryAfter * 1000 : 1000.
RetryDelayDefined(result) ==
    IF result.retryAfter # Undef THEN result.retryAfter.v * MsPerSecond
    ELSE DefaultRetryMs

\* result.retryAfter ? result.retryAfter * 1000 : 1000
RetryDelay(result) ==
    IF Truthy(result.retryAfter) THEN result.retryAfter.v * MsPerSecond
    ELSE DefaultRetryMs

\* Mutant: attempt <= maxAttempts.
LoopContinuesInclusive(a) == a <= maxAttempts

\* Mutant: attempt < maxAttempts - 1.
LoopContinuesShort(a) == a < maxAttempts - 1

\* attempt < maxAttempts
LoopContinues(a) == a < maxAttempts

\* createRender's catch around fetch: the POST was rejected.
OnCreateRejected(ans) == Ends(events, Thrown(ConnectError(RendersUrl, ans)))

\* createRender's if (!renderResponse.ok).
OnCreateHttpFailure(ans) ==
    Ends(events, Thrown(HttpError("Failed to start render: ", ans)))

\* Mutant: the first wait sits inside the if (onProgress) block.
OnCreatedDelayInsideIf(id, cb) ==
    LET evs == Emit(events, StartedEvent(id))
    IN  IF Throws(cb) THEN Ends(evs, Thrown(CallbackError))
        ELSE IF onProgress THEN Waits(evs, "initialDelay", InitialDelayMs)
        ELSE [pc |-> "initialDelay", events |-> evs, sleeps |-> sleeps,
              outcome |-> outcome]

\* Mutant: the first wait uses the interval between two polls.
OnCreatedShortDelay(id, cb) ==
    LET evs == Emit(events, StartedEvent(id))
    IN  IF Throws(cb) THEN Ends(evs, Thrown(CallbackError))
        ELSE Waits(evs, "initialDelay", DefaultRetryMs)

\* render from createRender's return up to the first setTimeout.
OnCreated(id, cb) ==
    LET evs == Emit(events, StartedEvent(id))
    IN  IF Throws(cb) THEN Ends(evs, Thrown(CallbackError))
        ELSE Waits(evs, "initialDelay", InitialDelayMs)

\* Mutant: createRender without its if (!renderResponse.ok).
AfterCreateIgnoresStatus(ans, cb) ==
    IF ans.kind = "rejected" THEN OnCreateRejected(ans)
    ELSE IF ans.kind = "http" THEN OnCreated(Undef, cb)
    ELSE OnCreated(ans.body.renderId, cb)

\* render from the answer to the POST up to the first setTimeout.
AfterCreate(ans, cb) ==
    IF ans.kind = "rejected" THEN OnCreateRejected(ans)
    ELSE IF ans.kind = "http" THEN OnCreateHttpFailure(ans)
    ELSE OnCreated(ans.body.renderId, cb)

\* Mutant: a rejected GET is swallowed and the poll repeated after a wait.
OnFetchRejectedRetries(ans) == Waits(events, "sleeping", DefaultRetryMs)

\* getRender's catch around fetch: the GET was rejected.
OnFetchRejected(ans) ==
    Ends(events, Thrown(ConnectError(StatusUrl(renderId), ans)))

\* Mutant: a status fetch the server refused is reported as a 'failed' event.
OnFetchHttpFailureEmitsFailed(ans) ==
    Ends(Emit(events, FailedEvent(renderId, [status |-> Undef])),
         Thrown(HttpError("Failed to get render status: ", ans)))

\* getRender's if (!resultResponse.ok).
OnFetchHttpFailure(ans) ==
    Ends(events, Thrown(HttpError("Failed to get render status: ", ans)))

\* Mutant: the completed event is reported inside a try/catch.
OnCompletedCatches(evs1, result, cb) ==
    Ends(Emit(evs1, CompletedEvent(renderId, result)), Returned(result))

\* Mutant: the completed branch without its return.
OnCompletedNoReturn(evs1, result, cb) ==
    LET evs2 == Emit(evs1, CompletedEvent(renderId, result))
    IN  IF Throws(cb) THEN Ends(evs2, Thrown(CallbackError))
        ELSE Waits(evs2, "sleeping", RetryDelay(result))

\* if (result.status === 'completed') { ... return result; }
OnCompleted(evs1, result, cb) ==
    LET evs2 == Emit(evs1, CompletedEvent(renderId, result))
    IN  IF Throws(cb) THEN Ends(evs2, Thrown(CallbackError))
        ELSE Ends(evs2, Returned(result))

\* Mutant: the failed branch throws without reporting the event.
OnFailedNoEvent(evs1, result, cb) == Ends(evs1, Thrown(RenderFailedError(result)))

\* if (result.status === 'failed') { ... throw new Error(...); }
OnFailed(evs1, result, cb) ==
    LET evs2 == Emit(evs1, FailedEvent(renderId, result))
    IN  IF Throws(cb) THEN Ends(evs2, Thrown(CallbackError))
        ELSE Ends(evs2, Thrown(RenderFailedError(result)))

\* Mutant: no wait after the last attempt, the timeout is raised at once.
OnOtherStatusLastNoWait(evs1, result) ==
    IF attempt = maxAttempts - 1 THEN Ends(evs1, Thrown(TimeoutError))
    ELSE Waits(evs1, "sleeping", RetryDelay(result))

\* The end of the loop body: the wait before polling again.
OnOtherStatus(evs1, result) == Waits(evs1, "sleeping", RetryDelay(result))

\* The loop body of render from getRender's return on.
OnResult(result, cb1, cb2) ==
    LET evs1 == Emit(events, PollingEvent(renderId, result, attempt))
    IN  IF Throws(cb1) THEN Ends(evs1, Thrown(CallbackError))
        ELSE IF IsCompleted(result) THEN OnCompleted(evs1, result, cb2)
        ELSE IF IsFailed(result) THEN OnFailed(evs1, result, cb2)
        ELSE OnOtherStatus(evs1, result)

\* getRender and the loop body of render from the answer to the GET up to
\* the next setTimeout, the return or the throw.
AfterFetch(ans, cb1, cb2) ==
    IF ans.kind = "rejected" THEN OnFetchRejected(ans)
    ELSE IF ans.kind = "http" THEN OnFetchHttpFailure(ans)
    ELSE OnResult(Decoded(ans.body), cb1, cb2)

\* The loop head with the loop variable at a: the next status fetch, or the
\* timeout once the loop is exhausted.
LoopHead(a) ==
    /\ attempt' = a
    /\ IF LoopContinues(a)
       THEN /\ requests' = Append(requests, Get(StatusUrl(renderId)))
            /\ pc' = "awaitFetch"
            /\ outcome' = outcome
       ELSE /\ requests' = requests
            /\ pc' = "done"
            /\ outcome' = Thrown(TimeoutError)

Last(seq) == seq[Len(seq)]

\* There is no other invocation.
NoInvocation == [pc |-> "none"]

----------------------------------------------------------------------------
(* The actions.                                                            *)

Init ==
    /\ client = [apiKey |-> "key", baseUrl |-> DefaultBaseUrl]
    /\ helperCall = NoHelperCall
    /\ call = [url |-> "https://example.com", options |-> NoOptions]
    /\ onProgress \in BOOLEAN
    /\ asyncCalls = 0
    /\ calls = <<>>
    /\ pc = "idle"
    /\ renderId = Undef
    /\ attempt = 0
    /\ events = <<>>
    /\ requests = <<>>
    /\ created = NoAnswer
    /\ served = <<>>
    /\ sleeps = <<>>
    /\ outcome = Pending
    /\ suspended = NoInvocation

\* render is called: createRender issues the POST.
Render ==
    /\ pc = "idle"
    /\ requests' = Append(requests, Post(RendersUrl, Payload(call.url, call.options)))
    /\ pc' = "awaitCreate"
    /\ UNCHANGED <<suspended, client, helperCall, call, onProgress, asyncCalls, calls, renderId,
                   attempt, events, created, served, sleeps, outcome>>

\* The POST is answered.
CreateResponds ==
    /\ pc = "awaitCreate"
    /\ \E ans \in {ConnectionFailure, HttpFailure}
                    \cup {Ok([renderId |-> Str(id)]) : id \in RenderIds},
          cb \in CallbackOutcomes(1) :
          LET next == AfterCreate(ans, cb)
          IN  /\ created' = ans
              /\ calls' = Called(events, next.events, <<cb>>)
              /\ asyncCalls' = AsyncCallsLeft(events, next.events)
              /\ renderId' = IF ans.kind = "ok" THEN ans.body.renderId ELSE renderId
              /\ pc' = next.pc
              /\ events' = next.events
              /\ sleeps' = next.sleeps
              /\ outcome' = next.outcome
    /\ UNCHANGED <<suspended, client, helperCall, call, onProgress, attempt, requests, served>>

\* The 2000 ms timer fires: the loop starts.
InitialDelayElapses ==
    /\ pc = "initialDelay"
    /\ LoopHead(0)
    /\ UNCHANGED <<suspended, client, helperCall, call, onProgress, asyncCalls, calls, renderId,
                   events, created, served, sleeps>>

\* The GET is answered, a 2xx answer carrying one of results.
FetchRespondsWith(results) ==
    /\ pc = "awaitFetch"
    /\ \E ans \in {ConnectionFailure, HttpFailure} \cup {Ok(r) : r \in results},
          cb1 \in CallbackOutcomes(1), cb2 \in CallbackOutcomes(2) :
          LET next == AfterFetch(ans, cb1, cb2)
          IN  /\ served' = Append(served, ans)
              /\ calls' = Called(events, next.events, <<cb1, cb2>>)
              /\ asyncCalls' = AsyncCallsLeft(events, next.events)
              /\ pc' = next.pc
              /\ events' = next.events
              /\ sleeps' = next.sleeps
              /\ outcome' = next.outcome
    /\ UNCHANGED <<suspended, client, helperCall, call, onProgress, renderId, attempt, requests,
                   created>>

\* The GET is answered.
FetchResponds == FetchRespondsWith(ServerResults(Len(served) + 1, served))

\* The timer between two polls fires: attempt++ and the loop test.
SleepElapses ==
    /\ pc = "sleeping"
    /\ LoopHead(attempt + 1)
    /\ UNCHANGED <<suspended, client, helperCall, call, onProgress, asyncCalls, calls, renderId,
                   events, created, served, sleeps>>

Next ==
    \/ Render
    \/ CreateResponds
    \/ InitialDelayElapses
    \/ FetchResponds
    \/ SleepElapses

Spec == Init /\ [][Next]_vars

\* Every transport call, timer and callback call returns.
FairSpec == Spec /\ WF_vars(Next)

----------------------------------------------------------------------------
(* A render call with an asynchronous callback: a callback call may return *)
(* a promise, which render drops (the value of onProgress(...) is not      *)
(* used); the promise settles on its own, at any later time.               *)

\* A server that answers 'processing' without a hint until the job ends.
SteadyResults ==
    CompletedResults \cup FailedResults
    \cup { Result(Str("processing"), Undef, Undef, Undef) }

InitAsync ==
    /\ client = [apiKey |-> "key", baseUrl |-> DefaultBaseUrl]
    /\ helperCall = NoHelperCall
    /\ call = [url |-> "https://example.com", options |-> NoOptions]
    /\ onProgress = TRUE
    /\ asyncCalls = MaxAsyncCalls
    /\ calls = <<>>
    /\ pc = "idle"
    /\ renderId = Undef
    /\ attempt = 0
    /\ events = <<>>
    /\ requests = <<>>
    /\ created = NoAnswer
    /\ served = <<>>
    /\ sleeps = <<>>
    /\ outcome = Pending
    /\ suspended = NoInvocation

FetchRespondsSteady == FetchRespondsWith(SteadyResults)

\* A promise returned by the callback is fulfilled or rejected: nothing in
\* render holds it.
CallbackSettles ==
    /\ \E i \in 1..Len(calls), how \in {"fulfilled", "rejected"} :
          /\ calls[i] = "pending"
          /\ calls' = [calls EXCEPT ![i] = how]
    /\ UNCHANGED <<suspended, client, helperCall, call, onProgress, asyncCalls, pc, renderId,
                   attempt, events, requests, created, served, sleeps, outcome>>

NextAsync ==
    \/ Render
    \/ CreateResponds
    \/ InitialDelayElapses
    \/ FetchRespondsSteady
    \/ SleepElapses
    \/ CallbackSettles

AsyncSpec == InitAsync /\ [][NextAsync]_vars

----------------------------------------------------------------------------
(* createRender over every options object: the call is made with any of    *)
(* AllOptions and submits its payload.                                     *)

InitPayload ==
    /\ client = [apiKey |-> "key", baseUrl |-> DefaultBaseUrl]
    /\ helperCall = NoHelperCall
    /\ call \in [url : {"https://example.com"}, options : AllOptions]
    /\ onProgress = FALSE
    /\ asyncCalls = 0
    /\ calls = <<>>
    /\ pc = "idle"
    /\ renderId = Undef
    /\ attempt = 0
    /\ events = <<>>
    /\ requests = <<>>
    /\ created = NoAnswer
    /\ served = <<>>
    /\ sleeps = <<>>
    /\ outcome = Pending
    /\ suspended = NoInvocation

NextPayload == Render

PayloadSpec == InitPayload /\ [][NextPayload]_vars

----------------------------------------------------------------------------
(* A caller builds one wait action with a helper, passes it as the waitFor *)
(* option and calls render.                                                *)

InitHelper ==
    /\ client = [apiKey |-> "key", baseUrl |-> DefaultBaseUrl]
    /\ helperCall \in HelperCalls
    /\ call = [url |-> "https://example.com", options |-> NoOptions]
    /\ onProgress = FALSE
    /\ asyncCalls = 0
    /\ calls = <<>>
    /\ pc = "idle"
    /\ renderId = Undef
    /\ attempt = 0
    /\ events = <<>>
    /\ requests = <<>>
    /\ created = NoAnswer
    /\ served = <<>>
    /\ sleeps = <<>>
    /\ outcome = Pending
    /\ suspended = NoInvocation

\* { waitFor: [Browser7.fn(...args)] }
CallHelper ==
    /\ pc = "idle"
    /\ helperCall.fn \in HelperNames
    /\ call.options["waitFor"] = Undef
    /\ call' = [call EXCEPT !.options["waitFor"] =
                   [t |-> "array", v |-> <<Helper(helperCall.fn, helperCall.args)>>]]
    /\ UNCHANGED <<suspended, client, helperCall, onProgress, asyncCalls, calls, pc, renderId,
                   attempt, events, requests, created, served, sleeps, outcome>>

NextHelper ==
    \/ CallHelper
    \/ Render

HelperSpec == InitHelper /\ [][NextHelper]_vars

----------------------------------------------------------------------------
(* The public methods called directly: a client is constructed, then one   *)
(* of createRender, getRender, getAccountBalance or render is called on    *)
(* it.  The server sends html and fetchResponses in every form.            *)

Methods == {"createRender", "getRender", "getAccountBalance", "render"}

InitApi ==
    /\ client \in { New(o) : o \in ConstructorOptions }
    /\ helperCall = NoHelperCall
    /\ call \in [url : {"https://example.com"}, options : {NoOptions}, method : Methods]
    /\ onProgress = FALSE
    /\ asyncCalls = 0
    /\ calls = <<>>
    /\ pc = "idle"
    /\ renderId = Undef
    /\ attempt = 0
    /\ events = <<>>
    /\ requests = <<>>
    /\ created = NoAnswer
    /\ served = <<>>
    /\ sleeps = <<>>
    /\ outcome = Pending
    /\ suspended = NoInvocation

\* new Browser7(options)
Construct ==
    /\ "options" \in DOMAIN client
    /\ client' = Browser7(client.options)
    /\ UNCHANGED <<suspended, helperCall, call, onProgress, asyncCalls, calls, pc,
                   renderId,
                   attempt, events, requests, created, served, sleeps, outcome>>

\* createRender(url, options) is called: the POST is issued.
CallCreateRender ==
    /\ IsClient
    /\ call.method = "createRender"
    /\ pc = "idle"
    /\ requests' = Append(requests, Post(RendersUrl, Payload(call.url, call.options)))
    /\ pc' = "createRender"
    /\ UNCHANGED <<suspended, client, helperCall, call, onProgress, asyncCalls, calls, renderId,
                   attempt, events, created, served, sleeps, outcome>>

\* What createRender settles to on the answer to its POST.
CreateRenderOutcome(ans) ==
    IF ans.kind = "rejected" THEN OnCreateRejected(ans).outcome
    ELSE IF ans.kind = "http" THEN OnCreateHttpFailure(ans).outcome
    ELSE Returned(ans.body)

CreateRenderResponds ==
    /\ pc = "createRender"
    /\ \E ans \in ConnectionFailures \cup HttpFailures
                    \cup {Ok([renderId |-> Str(id)]) : id \in RenderIds} :
          /\ created' = ans
          /\ outcome' = CreateRenderOutcome(ans)
    /\ pc' = "done"
    /\ UNCHANGED <<suspended, client, helperCall, call, onProgress, asyncCalls, calls, renderId,
                   attempt, events, requests, served, sleeps>>

\* getRender(renderId) is called: the GET is issued.
CallGetRender ==
    /\ IsClient
    /\ call.method = "getRender"
    /\ pc = "idle"
    /\ \E id \in RenderIds :
          /\ renderId' = Str(id)
          /\ requests' = Append(requests, Get(StatusUrl(Str(id))))
    /\ pc' = "getRender"
    /\ UNCHANGED <<suspended, client, helperCall, call, onProgress, asyncCalls, calls, attempt,
                   events, created, served, sleeps, outcome>>

\* What getRender settles to on the answer to its GET.
GetRenderOutcome(ans) ==
    IF ans.kind = "rejected" THEN OnFetchRejected(ans).outcome
    ELSE IF ans.kind = "http" THEN OnFetchHttpFailure(ans).outcome
    ELSE Returned(Decoded(ans.body))

GetRenderResponds ==
    /\ pc = "getRender"
    /\ \E ans \in ConnectionFailures \cup HttpFailures \cup {Ok(r) : r \in WireResults} :
          /\ served' = Append(served, ans)
          /\ outcome' = GetRenderOutcome(ans)
    /\ pc' = "done"
    /\ UNCHANGED <<suspended, client, helperCall, call, onProgress, asyncCalls, calls, renderId,
                   attempt, events, requests, created, sleeps>>

\* getAccountBalance() is called: the GET is issued.
CallGetAccountBalance ==
    /\ IsClient
    /\ call.method = "getAccountBalance"
    /\ pc = "idle"
    /\ requests' = Append(requests, Get(BalanceUrl))
    /\ pc' = "getAccountBalance"
    /\ UNCHANGED <<suspended, client, helperCall, call, onProgress, asyncCalls, calls, renderId,
                   attempt, events, created, served, sleeps, outcome>>

\* Mutant: getAccountBalance without its try/catch around fetch: the
\* rejection of fetch leaves as it is.
GetAccountBalanceOutcomeUncaught(ans) ==
    IF ans.kind = "rejected" THEN Thrown(<<ans.cause>>)
    ELSE IF ans.kind = "http"
    THEN Thrown(HttpError("Failed to get account balance: ", ans))
    ELSE Returned(ans.body)

\* What getAccountBalance settles to on the answer to its GET.
GetAccountBalanceOutcome(ans) ==
    IF ans.kind = "rejected" THEN Thrown(ConnectError(BalanceUrl, ans))
    ELSE IF ans.kind = "http"
    THEN Thrown(HttpError("Failed to get account balance: ", ans))
    ELSE Returned(ans.body)

GetAccountBalanceResponds ==
    /\ pc = "getAccountBalance"
    /\ \E ans \in ConnectionFailures \cup HttpFailures \cup {Ok(Balance)} :
          /\ served' = Append(served, ans)
          /\ outcome' = GetAccountBalanceOutcome(ans)
    /\ pc' = "done"
    /\ UNCHANGED <<suspended, client, helperCall, call, onProgress, asyncCalls, calls, renderId,
                   attempt, events, requests, created, sleeps>>

\* render(url) is called on the client.
RenderOnClient == IsClient /\ call.method = "render" /\ Render

FetchRespondsWire == FetchRespondsWith(WireRenderResults)

NextApi ==
    \/ Construct
    \/ CallCreateRender
    \/ CreateRenderResponds
    \/ CallGetRender
    \/ GetRenderResponds
    \/ CallGetAccountBalance
    \/ GetAccountBalanceResponds
    \/ RenderOnClient
    \/ CreateResponds
    \/ InitialDelayElapses
    \/ FetchRespondsWire
    \/ SleepElapses

ApiSpec == InitApi /\ [][NextApi]_vars

----------------------------------------------------------------------------
(* A render call, with a callback, against a server whose results carry    *)
(* any status.                                                             *)

InitStatus ==
    /\ client = [apiKey |-> "key", baseUrl |-> DefaultBaseUrl]
    /\ helperCall = NoHelperCall
    /\ call = [url |-> "https://example.com", options |-> NoOptions]
    /\ onProgress = TRUE
    /\ asyncCalls = 0
    /\ calls = <<>>
    /\ pc = "idle"
    /\ renderId = Undef
    /\ attempt = 0
    /\ events = <<>>
    /\ requests = <<>>
    /\ created = NoAnswer
    /\ served = <<>>
    /\ sleeps = <<>>
    /\ outcome = Pending
    /\ suspended = NoInvocation

FetchRespondsAnyStatus ==
    FetchRespondsWith(OtherStatusServerResults(Len(served) + 1, served))

NextStatus ==
    \/ Render
    \/ CreateResponds
    \/ InitialDelayElapses
    \/ FetchRespondsAnyStatus
    \/ SleepElapses

StatusSpec == InitStatus /\ [][NextStatus]_vars

----------------------------------------------------------------------------
(* Two render calls on one client.  The variables of a call hold the       *)
(* invocation that runs; the other one waits in `suspended` at one of its  *)
(* await expressions, and the event loop may resume it whenever the        *)
(* running one is at an await itself.  Here the two awaits of gunzip in    *)
(* getRender are steps of their own.                                       *)

\* The arguments, locals and logs of the running invocation.
Locals ==
    [call |-> call, calls |-> calls, pc |-> pc, renderId |-> renderId,
     attempt |-> attempt, events |-> events, requests |-> requests,
     created |-> created, served |-> served, sleeps |-> sleeps, outcome |-> outcome]

InitConcurrent ==
    /\ client = [apiKey |-> "key", baseUrl |-> DefaultBaseUrl]
    /\ helperCall = NoHelperCall
    /\ call = [url |-> "https://example.com/a", options |-> NoOptions]
    /\ onProgress = TRUE
    /\ asyncCalls = 0
    /\ calls = <<>>
    /\ pc = "idle"
    /\ renderId = Undef
    /\ attempt = 0
    /\ events = <<>>
    /\ requests = <<>>
    /\ created = NoAnswer
    /\ served = <<>>
    /\ sleeps = <<>>
    /\ outcome = Pending
    /\ suspended =
          [call |-> [url |-> "https://example.com/b", options |-> NoOptions],
           calls |-> <<>>, pc |-> "idle", renderId |-> Undef, attempt |-> 0,
           events |-> <<>>, requests |-> <<>>, created |-> NoAnswer, served |-> <<>>,
           sleeps |-> <<>>, outcome |-> Pending]

\* Mutant: the loop variable is kept on the client (this.attempt), which the
\* two invocations share.
SwitchSharedAttempt ==
    /\ suspended.pc # "none"
    /\ suspended' = Locals
    /\ call' = suspended.call
    /\ calls' = suspended.calls
    /\ pc' = suspended.pc
    /\ renderId' = suspended.renderId
    /\ attempt' = attempt
    /\ events' = suspended.events
    /\ requests' = suspended.requests
    /\ created' = suspended.created
    /\ served' = suspended.served
    /\ sleeps' = suspended.sleeps
    /\ outcome' = suspended.outcome
    /\ UNCHANGED <<client, helperCall, onProgress, asyncCalls>>

\* The running invocation is at an await; the event loop resumes the other
\* one, with the arguments and locals it was suspended with.
Switch ==
    /\ suspended.pc # "none"
    /\ suspended' = Locals
    /\ call' = suspended.call
    /\ calls' = suspended.calls
    /\ pc' = suspended.pc
    /\ renderId' = suspended.renderId
    /\ attempt' = suspended.attempt
    /\ events' = suspended.events
    /\ requests' = suspended.requests
    /\ created' = suspended.created
    /\ served' = suspended.served
    /\ sleeps' = suspended.sleeps
    /\ outcome' = suspended.outcome
    /\ UNCHANGED <<client, helperCall, onProgress, asyncCalls>>

\* Mutant: if (result.html !== undefined), which takes the empty string to
\* gunzip.
AwaitsGunzipIfDefined(field) == field # Undef /\ ~BufferFromThrows(field)

\* `await gunzip(buffer)` is reached for this field: it is truthy and
\* Buffer.from did not throw.
AwaitsGunzip(field) == Truthy(field) /\ ~BufferFromThrows(field)

\* getRender returns result: the loop body of render runs up to the next
\* setTimeout, the return or the throw.
LoopBody(result) ==
    \E cb1 \in CallbackOutcomes(1), cb2 \in CallbackOutcomes(2) :
        LET next == OnResult(result, cb1, cb2)
        IN  /\ calls' = Called(events, next.events, <<cb1, cb2>>)
            /\ asyncCalls' = AsyncCallsLeft(events, next.events)
            /\ pc' = next.pc
            /\ events' = next.events
            /\ sleeps' = next.sleeps
            /\ outcome' = next.outcome

\* getRender stays at `await gunzip(buffer)`.
AwaitGunzip(at) ==
    /\ pc' = at
    /\ UNCHANGED <<asyncCalls, calls, events, sleeps, outcome>>

\* The GET is answered: getRender throws, or parses the body and goes on
\* to the first field it has to decompress, or returns.
FetchArrives ==
    /\ pc = "awaitFetch"
    /\ \E ans \in {ConnectionFailure, HttpFailure}
                    \cup {Ok(r) : r \in ConcurrentServerResults(Len(served) + 1)} :
          /\ served' = Append(served, ans)
          /\ IF ans.kind # "ok"
             THEN LET next == AfterFetch(ans, "returns", "returns")
                  IN  /\ pc' = next.pc
                      /\ outcome' = next.outcome
                      /\ UNCHANGED <<asyncCalls, calls, events, sleeps>>
             ELSE IF AwaitsGunzip(ans.body.html) THEN AwaitGunzip("gunzipHtml")
             ELSE IF AwaitsGunzip(ans.body.fetchResponses)
             THEN AwaitGunzip("gunzipFetchResponses")
             ELSE LoopBody(Decoded(ans.body))
    /\ UNCHANGED <<suspended, client, helperCall, call, onProgress, renderId, attempt,
                   requests, created>>

\* gunzip of html settles: getRender goes on to fetchResponses, or returns.
HtmlGunzipSettles ==
    /\ pc = "gunzipHtml"
    /\ IF AwaitsGunzip(Last(served).body.fetchResponses)
       THEN AwaitGunzip("gunzipFetchResponses")
       ELSE LoopBody(Decoded(Last(served).body))
    /\ UNCHANGED <<suspended, client, helperCall, call, onProgress, renderId, attempt,
                   requests, created, served>>

\* gunzip of fetchResponses settles: getRender returns.
FetchResponsesGunzipSettles ==
    /\ pc = "gunzipFetchResponses"
    /\ LoopBody(Decoded(Last(served).body))
    /\ UNCHANGED <<suspended, client, helperCall, call, onProgress, renderId, attempt,
                   requests, created, served>>

NextConcurrent ==
    \/ Render
    \/ CreateResponds
    \/ InitialDelayElapses
    \/ FetchArrives
    \/ HtmlGunzipSettles
    \/ FetchResponsesGunzipSettles
    \/ SleepElapses
    \/ Switch

ConcurrentSpec == InitConcurrent /\ [][NextConcurrent]_vars

----------------------------------------------------------------------------
(* The single-file variant (index.js at the top of the package):           *)
(* render(url, options, pollInterval, maxAttempts) with createRender and   *)
(* getRender written out inside it.  It decodes html only, and only of a   *)
(* completed result.  `call` holds the two extra arguments; an argument    *)
(* that is not passed is undefined.                                        *)

\* pollInterval = 1000, maxAttempts = 60 in the parameter list.
VariantDefaultPollInterval == 1000

VariantDefaultMaxAttempts == 60

\* The delay the loop falls back on: the literal in
\* `result.retryAfter ? result.retryAfter * 1000 : 1000`.
VariantFallbackMs == 1000

VariantMsPerSecond == 1000

\* The values of the parameters in the body of render.
pollInterval == Default(call.pollInterval, Num(VariantDefaultPollInterval)).v

maxAttemptsArg == Default(call.maxAttempts, Num(VariantDefaultMaxAttempts)).v

\* The API options of the variant.
VariantOptionKeys == {"countryCode", "city", "delay", "fetchUrl"}

\* const payload = { url }; and the four if statements.
VariantPayload(url, options) ==
    [k \in {"url"} \cup {key \in VariantOptionKeys : options[key] # Undef} |->
        IF k = "url" THEN Str(url) ELSE options[k]]

\* What the server may answer to the n-th status fetch: a retry hint varies
\* in the first answer only.
VariantServerResults(n) ==
    CompletedResults
    \cup { Result(Str("failed"), Undef, Str("blocked"), Undef) }
    \cup { Result(Str("processing"), ra, Undef, Undef) :
             ra \in IF n = 1 THEN RetryAfterValues ELSE {Undef} }

\* `Render timed out after ${maxAttempts} attempts`
VariantTimeoutError == <<"Render timed out after ", ToString(maxAttemptsArg), " attempts">>

\* const retryAfter = result.retryAfter ? result.retryAfter * 1000 : 1000;
VariantRetryDelay(result) ==
    IF Truthy(result.retryAfter) THEN result.retryAfter.v * VariantMsPerSecond
    ELSE VariantFallbackMs

\* The loop body from `const result = await resultResponse.json()` on.
VariantOnResult(result, cb1, cb2) ==
    LET evs1 == Emit(events, PollingEvent(renderId, result, attempt))
    IN  IF Throws(cb1) THEN Ends(evs1, Thrown(CallbackError))
        ELSE IF IsCompleted(result)
        THEN OnCompleted(evs1, [result EXCEPT !.html = DecodeHtml(@)], cb2)
        ELSE IF IsFailed(result) THEN OnFailed(evs1, result, cb2)
        ELSE Waits(evs1, "sleeping", VariantRetryDelay(result))

\* The loop body from the answer to the GET up to the next setTimeout, the
\* return or the throw.
VariantAfterFetch(ans, cb1, cb2) ==
    IF ans.kind = "rejected" THEN OnFetchRejected(ans)
    ELSE IF ans.kind = "http" THEN OnFetchHttpFailure(ans)
    ELSE VariantOnResult(ans.body, cb1, cb2)

\* for (let attempt = 0; attempt < maxAttempts; attempt++): the loop head
\* with the loop variable at a.
VariantLoopHead(a) ==
    /\ attempt' = a
    /\ IF a < maxAttemptsArg
       THEN /\ requests' = Append(requests, Get(StatusUrl(renderId)))
            /\ pc' = "awaitFetch"
            /\ outcome' = outcome
       ELSE /\ requests' = requests
            /\ pc' = "done"
            /\ outcome' = Thrown(VariantTimeoutError)

InitVariant ==
    /\ suspended = NoInvocation
    /\ client = [apiKey |-> "key", baseUrl |-> DefaultBaseUrl]
    /\ helperCall = NoHelperCall
    /\ call \in [url : {"https://example.com"},
                 options : {[key \in VariantOptionKeys |-> Undef]},
                 pollInterval : {Undef, Num(250), Num(1000)},
                 maxAttempts : {Undef, Num(0), Num(3)}]
    /\ onProgress = TRUE
    /\ asyncCalls = 0
    /\ calls = <<>>
    /\ pc = "idle"
    /\ renderId = Undef
    /\ attempt = 0
    /\ events = <<>>
    /\ requests = <<>>
    /\ created = NoAnswer
    /\ served = <<>>
    /\ sleeps = <<>>
    /\ outcome = Pending

\* render is called: the POST goes out.
VariantRender ==
    /\ pc = "idle"
    /\ requests' = Append(requests, Post(RendersUrl, VariantPayload(call.url, call.options)))
    /\ pc' = "awaitCreate"
    /\ UNCHANGED <<suspended, client, helperCall, call, onProgress, asyncCalls, calls, renderId,
                   attempt, events, created, served, sleeps, outcome>>

\* The 2000 ms timer fires: the loop starts.
VariantInitialDelayElapses ==
    /\ pc = "initialDelay"
    /\ VariantLoopHead(0)
    /\ UNCHANGED <<suspended, client, helperCall, call, onProgress, asyncCalls, calls, renderId,
                   events, created, served, sleeps>>

\* The GET is answered.
VariantFetchResponds ==
    /\ pc = "awaitFetch"
    /\ \E ans \in {ConnectionFailure, HttpFailure}
                    \cup {Ok(r) : r \in VariantServerResults(Len(served) + 1)},
          cb1 \in CallbackOutcomes(1), cb2 \in CallbackOutcomes(2) :
          LET next == VariantAfterFetch(ans, cb1, cb2)
          IN  /\ served' = Append(served, ans)
              /\ calls' = Called(events, next.events, <<cb1, cb2>>)
              /\ asyncCalls' = AsyncCallsLeft(events, next.events)
              /\ pc' = next.pc
              /\ events' = next.events
              /\ sleeps' = next.sleeps
              /\ outcome' = next.outcome
    /\ UNCHANGED <<suspended, client, helperCall, call, onProgress, renderId, attempt,
                   requests, created>>

\* The timer between two polls fires: attempt++ and the loop test.
VariantSleepElapses ==
    /\ pc = "sleeping"
    /\ VariantLoopHead(attempt + 1)
    /\ UNCHANGED <<suspended, client, helperCall, call, onProgress, asyncCalls, calls, renderId,
                   events, created, served, sleeps>>

\* CreateResponds: the variant has the statements of createRender and of
\* render up to the first setTimeout word for word.
NextVariant ==
    \/ VariantRender
    \/ CreateResponds
    \/ VariantInitialDelayElapses
    \/ VariantFetchResponds
    \/ VariantSleepElapses

VariantSpec == InitVariant /\ [][NextVariant]_vars

----------------------------------------------------------------------------
(* What the claims speak about.                                            *)

\* The status fetches and the job submissions issued so far.
StatusFetches == SelectSeq(requests, LAMBDA r : r.method = "GET")

Submissions == SelectSeq(requests, LAMBDA r : r.method = "POST")

\* The job submission succeeded.
Submitted == created.kind = "ok"

\* The latest status fetch was answered 2xx with this status.
LastServedStatus(status) ==
    /\ served # <<>>
    /\ Last(served).kind = "ok"
    /\ Last(served).body.status = Str(status)

\* The progress callback threw.
CallbackThrew == outcome.kind = "thrown" /\ outcome.error = <<"thrown by onProgress">>

TerminalTypes == {"completed", "failed"}

\* events[2..k+1] are the polling events of attempts 1..k.
PollingRun(k) ==
    /\ Len(events) >= k + 1
    /\ \A i \in 1..k : /\ events[i + 1].type = "polling"
                       /\ events[i + 1].attempt = Num(i)

\* The call is over for good: settled, and nothing more can happen in it.
Over == pc = "done" /\ outcome.kind # "pending" /\ ~ENABLED Next

----------------------------------------------------------------------------
\* C1: the events delivered to the callback of one render call are one
\* 'started', then 'polling' events, then at most one terminal event
\* ('completed' or 'failed'), which is the last one: nothing precedes
\* 'started', nothing follows a terminal event, and once the job is
\* submitted and 'started' reported there is exactly one 'started'.
C1_EventOrder ==
    /\ events # <<>> => events[1].type = "started"
    /\ \A i \in 2..Len(events) : events[i].type \in {"polling"} \cup TerminalTypes
    /\ \A i \in 1..Len(events) : events[i].type \in TerminalTypes => i = Len(events)
    /\ (onProgress /\ Submitted) => Cardinality({i \in 1..Len(events) : events[i].type = "started"}) = 1
    /\ ~onProgress => events = <<>>

\* A call that reported started, three polls and completed.
C1_Witness ==
    /\ Len(events) = 5
    /\ events[1].type = "started"
    /\ events[4].type = "polling"
    /\ events[5].type = "completed"

\* C2: for every k in 1..60, when the first k-1 status fetches are answered
\* with a non-terminal status and the k-th with 'completed', render (given a
\* callback that returns) emits exactly started, polling(1), ..., polling(k),
\* completed and returns a result whose status is 'completed'.
C2_CompletedAtK ==
    \A k \in 1..60 :
        (Len(served) = k /\ LastServedStatus("completed") /\ ~CallbackThrew) =>
            /\ outcome.kind = "returned"
            /\ outcome.value.status = Str("completed")
            /\ onProgress =>
                  /\ Len(events) = k + 2
                  /\ events[1].type = "started"
                  /\ PollingRun(k)
                  /\ events[k + 2].type = "completed"

\* Completion at the last attempt, reported to a callback.
C2_Witness ==
    /\ Len(served) = 60
    /\ LastServedStatus("completed")
    /\ onProgress
    /\ outcome.kind = "returned"

\* C3: when a status fetch is answered 'completed', render emits 'completed'
\* and returns the decoded result of that very fetch at once: no status
\* fetch, sleep or event follows in the call.
C3_CompletedReturnsAtOnce ==
    LastServedStatus("completed") =>
        /\ Over
        /\ Len(StatusFetches) = Len(served)
        /\ Len(sleeps) = Len(served)
        /\ ~CallbackThrew =>
              /\ outcome.kind = "returned"
              /\ outcome.value.status = Last(served).body.status
              /\ outcome.value.retryAfter = Last(served).body.retryAfter
              /\ Last(served).body.html = Base64Gzip(Str("<html></html>"))
                    => outcome.value.html = Str("<html></html>")
              /\ Last(served).body.html = Undef => outcome.value.html = Undef
              /\ onProgress => Last(events).type = "completed"
                               /\ events[Len(events) - 1].type = "polling"

\* A completed answer with an encoded page at the third poll.
C3_Witness ==
    /\ Len(served) = 3
    /\ LastServedStatus("completed")
    /\ Last(served).body.html = Base64Gzip(Str("<html></html>"))
    /\ outcome.kind = "returned"
    /\ outcome.value.html = Str("<html></html>")
    /\ onProgress

\* C4: when a status fetch is answered 'failed', render (given a callback
\* that returns) emits exactly one 'failed' event, right after the 'polling'
\* event of that fetch, and then fails; no status fetch or sleep follows.
C4_FailedEmitsThenFails ==
    LastServedStatus("failed") =>
        /\ Over
        /\ outcome.kind = "thrown"
        /\ Len(StatusFetches) = Len(served)
        /\ Len(sleeps) = Len(served)
        /\ (onProgress /\ ~CallbackThrew) =>
              /\ Cardinality({i \in 1..Len(events) : events[i].type = "failed"}) = 1
              /\ Last(events).type = "failed"
              /\ events[Len(events) - 1].type = "polling"
              /\ events[Len(events) - 1].attempt = Num(Len(served))
              /\ events[Len(events) - 1].status = Str("failed")
              /\ outcome.error[1] = "Render failed: "

\* A failure reported by the server at the second poll, with a callback.
C4_Witness ==
    /\ Len(served) = 2
    /\ LastServedStatus("failed")
    /\ onProgress
    /\ Last(events).type = "failed"
    /\ outcome.kind = "thrown"
    /\ outcome.error[1] = "Render failed: "

\* C5: the error render raises for a 'failed' status carries the error
\* message of that poll's result, and carries 'Unknown error' exactly when
\* the server supplied no message (none, or an empty one).
C5_FailedMessage ==
    (LastServedStatus("failed") /\ ~CallbackThrew) =>
        LET error == Last(served).body.error
        IN  /\ outcome.kind = "thrown"
            /\ error \in {Undef, Str("")} => outcome.error = <<"Render failed: ", "Unknown error">>
            /\ error \notin {Undef, Str("")} => outcome.error = <<"Render failed: ">> \o error.v
            /\ (outcome.error[2] = "Unknown error") <=> (error \in {Undef, Str("")})

\* A failure with the server's message "blocked".
C5_Witness ==
    /\ LastServedStatus("failed")
    /\ Last(served).body.error = Str("blocked")
    /\ outcome = Thrown(<<"Render failed: ", "blocked">>)

\* A failure with an empty message.
C5_WitnessFallback ==
    /\ LastServedStatus("failed")
    /\ Last(served).body.error = Str("")
    /\ outcome = Thrown(<<"Render failed: ", "Unknown error">>)

\* Every status fetch so far was answered 2xx with a non-terminal status.
AllNonTerminal ==
    \A i \in 1..Len(served) :
        /\ served[i].kind = "ok"
        /\ served[i].body.status \notin {Str("completed"), Str("failed")}

\* C6: when every status fetch is answered with a non-terminal status,
\* render (given no callback or one that returns) fails with the timeout
\* error naming 60 attempts after exactly 60 status fetches, and has emitted
\* exactly 60 'polling' events, of attempts 1..60.
C6_TimeoutAfter60 ==
    (pc = "done" /\ Submitted /\ AllNonTerminal /\ ~CallbackThrew) =>
        /\ outcome = Thrown(<<"Render timed out after ", "60", " attempts">>)
        /\ Len(served) = 60
        /\ Len(StatusFetches) = 60
        /\ onProgress =>
              /\ Len(events) = 61
              /\ events[1].type = "started"
              /\ PollingRun(60)

\* A timed-out call with a callback.
C6_Witness ==
    /\ pc = "done"
    /\ AllNonTerminal
    /\ Len(served) = 60
    /\ onProgress
    /\ Len(events) = 61
    /\ outcome.kind = "thrown"
    /\ outcome.error[1] = "Render timed out after "

\* C7: in every state of a render call at most 60 status fetches and at most
\* one job submission have been issued, whatever the server answers.
C7_RequestCaps ==
    /\ Len(StatusFetches) <= 60
    /\ Len(Submissions) <= 1
    /\ Len(requests) = Len(StatusFetches) + Len(Submissions)

\* The 60th status fetch is out, after a poll answered with retryAfter 2 and
\* one with an unknown status.
C7_Witness ==
    /\ Len(StatusFetches) = 60
    /\ Len(Submissions) = 1
    /\ pc = "awaitFetch"
    /\ served[1].body.retryAfter = Num(2)
    /\ served[2].body.status = Str("created")

\* C8: every render call terminates (returns or fails), provided every
\* transport call, timer and callback call returns.
C8_Terminates == <>(pc = "done" /\ outcome.kind \in {"returned", "thrown"})

\* The longest call: the one that times out.
C8_Witness ==
    /\ pc = "done"
    /\ outcome = Thrown(TimeoutError)
    /\ Len(sleeps) = 61

\* C9: when the job submission fails (the connection, or a non-2xx answer),
\* render fails at once with that error: one submission, no 'started'
\* event, no delay, no status fetch.
C9_SubmissionFailure ==
    created.kind \in {"rejected", "http"} =>
        /\ Over
        /\ created.kind = "rejected" =>
              outcome = Thrown(<<"Failed to connect to ", "https://api.browser7.com/v1",
                                 "/renders", ": ", "ECONNREFUSED">>)
        /\ created.kind = "http" =>
              outcome = Thrown(<<"Failed to start render: ", "500", " ", "oops">>)
        /\ Len(requests) = 1
        /\ requests[1].method = "POST"
        /\ events = <<>>
        /\ sleeps = <<>>
        /\ served = <<>>

\* A submission answered 500, with a callback that was never called.
C9_Witness ==
    /\ created.kind = "http"
    /\ onProgress
    /\ pc = "done"
    /\ events = <<>>
    /\ outcome.kind = "thrown"

\* C10: when a status fetch fails (the connection, or a non-2xx answer),
\* render fails at once with that error, the only outcome of the call: the
\* fetch is not repeated and no status fetch or sleep follows.
C10_FetchFailure ==
    (served # <<>> /\ Last(served).kind \in {"rejected", "http"}) =>
        /\ Over
        /\ Last(served).kind = "rejected" =>
              outcome = Thrown(<<"Failed to connect to ", "https://api.browser7.com/v1",
                                 "/renders/">> \o renderId.v \o <<": ", "ECONNREFUSED">>)
        /\ Last(served).kind = "http" =>
              outcome = Thrown(<<"Failed to get render status: ", "500", " ", "oops">>)
        /\ Len(StatusFetches) = Len(served)
        /\ Len(sleeps) = Len(served)
        /\ \A i \in 1..Len(events) : events[i].type \notin TerminalTypes

\* The third status fetch is refused after two answered polls.
C10_Witness ==
    /\ Len(served) = 3
    /\ Last(served).kind = "rejected"
    /\ served[2].kind = "ok"
    /\ pc = "done"
    /\ outcome.kind = "thrown"
    /\ Len(StatusFetches) = 3

\* C11: in every render call the job is submitted successfully, then
\* 'started' is emitted, then the fixed 2000 ms delay is taken, then the
\* first status fetch is issued: the first delay is the 2000 ms one, it is
\* taken only after the submission and the 'started' event, and the first
\* status fetch is issued by the step in which that delay ends.
C11_StateOrder ==
    /\ sleeps # <<>> =>
          /\ sleeps[1] = 2000
          /\ Submitted
          /\ Len(Submissions) = 1
          /\ onProgress => events # <<>> /\ events[1].type = "started"
    /\ pc \in {"idle", "awaitCreate", "initialDelay"} => StatusFetches = <<>>
    /\ StatusFetches # <<>> => sleeps # <<>> /\ requests[1].method = "POST"

C11_FirstFetchStep ==
    (StatusFetches = <<>> /\ StatusFetches' # <<>>) =>
        /\ pc = "initialDelay"
        /\ sleeps = <<2000>>
        /\ Submitted
        /\ onProgress => Len(events) = 1 /\ events[1].type = "started"
        /\ Len(StatusFetches') = 1

C11_SubmitStartedDelayFetch == []C11_StateOrder /\ [][C11_FirstFetchStep]_vars

\* The first status fetch is out, after 'started' and the 2000 ms delay.
C11_Witness ==
    /\ pc = "awaitFetch"
    /\ Len(StatusFetches) = 1
    /\ sleeps = <<2000>>
    /\ onProgress
    /\ Len(events) = 1
    /\ events[1].type = "started"

\* The status fetches answered 2xx with a non-terminal status, after which
\* the loop body went on to its wait.
FollowedByWait(i) ==
    /\ served[i].kind = "ok"
    /\ served[i].body.status \notin {Str("completed"), Str("failed")}
    /\ ~(i = Len(served) /\ CallbackThrew)

\* C12: after a status fetch answered with a non-terminal status the delay
\* before the next status fetch is retryAfter * 1000 ms when that answer's
\* retryAfter is present and nonzero, and 1000 ms when it is absent or 0;
\* it depends on that answer's retryAfter only.
C12_RetryDelay ==
    \A i \in 1..Len(served) :
        FollowedByWait(i) =>
            /\ Len(sleeps) >= i + 1
            /\ served[i].body.retryAfter \in {Undef, Num(0)} => sleeps[i + 1] = 1000
            /\ served[i].body.retryAfter \notin {Undef, Num(0)} =>
                  sleeps[i + 1] = served[i].body.retryAfter.v * 1000

\* A hint of 2 s, then hints of 0: 2000 ms, then 1000 ms each time.
C12_Witness ==
    /\ Len(served) = 3
    /\ served[1].body.retryAfter = Num(2)
    /\ served[2].body.retryAfter = Num(0)
    /\ served[3].kind = "ok"
    /\ served[3].body.retryAfter = Num(0)
    /\ sleeps = <<2000, 2000, 1000, 1000>>

\* A hint of 2 s, then no hint.
C12_WitnessNoHint ==
    /\ Len(served) = 2
    /\ served[1].body.retryAfter = Num(2)
    /\ served[2].kind = "ok"
    /\ served[2].body.status = Str("created")
    /\ served[2].body.retryAfter = Undef
    /\ sleeps = <<2000, 2000, 1000>>

\* The places of the 'polling' events in the event log.
PollingPlaces == {i \in 1..Len(events) : events[i].type = "polling"}

\* The places of the 2xx answers among the answers to the status fetches.
OkPlaces == {i \in 1..Len(served) : served[i].kind = "ok"}

\* C13: with a callback, the i-th successful status fetch of a render call
\* produces exactly one 'polling' event, whose attempt is i and whose status
\* and retryAfter are those of that fetch's result; the attempts go up by 1
\* from 1 and no event is delivered twice.
C13_PollingEvents ==
    onProgress =>
        /\ Cardinality(PollingPlaces) = Cardinality(OkPlaces)
        /\ OkPlaces = 1..Cardinality(OkPlaces)
        /\ \A i \in OkPlaces :
              /\ events[i + 1].type = "polling"
              /\ events[i + 1].attempt = Num(i)
              /\ events[i + 1].status = served[i].body.status
              /\ events[i + 1].retryAfter = served[i].body.retryAfter
              /\ events[i + 1].renderId = renderId
        /\ Cardinality({events[i].attempt : i \in PollingPlaces}) = Cardinality(PollingPlaces)

\* Three polls with different hints and statuses, each reported once.
C13_Witness ==
    /\ onProgress
    /\ Len(served) = 3
    /\ OkPlaces = {1, 2, 3}
    /\ served[1].body.retryAfter = Num(2)
    /\ served[2].body.status = Str("created")
    /\ events[2].retryAfter = Num(2)
    /\ events[3].status = Str("created")
    /\ events[4].attempt = Num(3)

\* A callback call threw.
SomeCallThrew == \E i \in 1..Len(calls) : calls[i] = "throws"

\* C14: when the progress callback throws on an event (started, polling,
\* completed or failed), render fails with the callback's error and makes
\* no further transport call, sleep or emission; a throw on 'completed'
\* makes render fail although the server reported completion.
C14_CallbackThrowAborts ==
    /\ Len(calls) = Len(events)
    /\ \A i \in 1..Len(calls) :
          calls[i] = "throws" =>
              /\ i = Len(events)
              /\ Over
              /\ outcome = Thrown(<<"thrown by onProgress">>)
              /\ Len(StatusFetches) = Len(served)
              /\ Len(sleeps) = Len(served)

\* The callback threw on 'completed': the call fails.
C14_Witness ==
    /\ events # <<>>
    /\ Last(events).type = "completed"
    /\ Last(calls) = "throws"
    /\ LastServedStatus("completed")
    /\ outcome.kind = "thrown"

\* The callback threw on each of the other events.
C14_WitnessStarted == Len(events) = 1 /\ calls = <<"throws">> /\ pc = "done"

C14_WitnessPolling ==
    Len(events) = 3 /\ events[3].type = "polling" /\ calls[3] = "throws" /\ pc = "done"

C14_WitnessFailed ==
    events # <<>> /\ Last(events).type = "failed" /\ Last(calls) = "throws" /\ pc = "done"

\* The control flow a call has after the answers in created and served,
\* stated without the callback: the delays taken, ...
FlowSleeps ==
    IF ~Submitted THEN <<>>
    ELSE <<2000>> \o
         [i \in 1..Cardinality({j \in 1..Len(served) :
                                   /\ served[j].kind = "ok"
                                   /\ served[j].body.status \notin {Str("completed"), Str("failed")}})
            |-> IF served[i].body.retryAfter \in {Undef, Num(0)} THEN 1000
                ELSE served[i].body.retryAfter.v * 1000]

\* ... the requests issued, ...
FlowRequests ==
    /\ pc # "idle" => Len(Submissions) = 1 /\ requests[1].method = "POST"
    /\ Len(StatusFetches) = Len(served) + (IF pc = "awaitFetch" THEN 1 ELSE 0)
    /\ LET fetches == StatusFetches
       IN  \A i \in 1..Len(fetches) :
               fetches[i].url = <<client.baseUrl, "/renders/">> \o renderId.v

\* ... and the outcome.
FlowOutcome ==
    IF created.kind \in {"rejected", "http"} THEN outcome.kind = "thrown"
    ELSE IF served # <<>> /\ Last(served).kind \in {"rejected", "http"}
    THEN outcome.kind = "thrown" /\ outcome.error[1] \in {"Failed to connect to ", "Failed to get render status: "}
    ELSE IF LastServedStatus("completed")
    THEN outcome.kind = "returned" /\ outcome.value.status = Str("completed")
    ELSE IF LastServedStatus("failed")
    THEN outcome.kind = "thrown" /\ outcome.error[1] = "Render failed: "
    ELSE IF pc = "done"
    THEN outcome = Thrown(<<"Render timed out after ", "60", " attempts">>)
    ELSE outcome.kind = "pending"

\* C15 as claimed: for every sequence of server answers, supplying a
\* progress callback never alters render's control flow: the transport
\* calls, the delays and the outcome are those of a call with no callback.
C15_Original == FlowSleeps = sleeps /\ FlowRequests /\ FlowOutcome

\* C15 as amended: the same, for a callback that does not throw.
C15_ObservationalUnlessThrown == ~SomeCallThrew => C15_Original

\* A call with a callback that returned five times, which ended as the call
\* without a callback does.
C15_Witness ==
    /\ onProgress
    /\ Len(calls) = 5
    /\ ~SomeCallThrew
    /\ LastServedStatus("completed")
    /\ served[1].body.retryAfter = Num(2)
    /\ sleeps = <<2000, 2000, 1000>>
    /\ outcome.kind = "returned"

\* C16: render does not await the progress callback.  When a callback call
\* returns a promise, render goes on to its next delay or status fetch
\* without waiting for it, and the promise's later fulfilment or rejection
\* changes neither the outcome nor the events: whatever the promises do,
\* the delays, requests and outcome are those the server's answers decide,
\* and the events are 'started', the polls in order and the terminal event.
C16_CallbackNotAwaited ==
    ~SomeCallThrew =>
        /\ FlowSleeps = sleeps
        /\ FlowRequests
        /\ FlowOutcome
        /\ Len(calls) = Len(events)
        /\ Submitted => (events # <<>> /\ events[1].type = "started")
        /\ Cardinality(PollingPlaces) = Cardinality(OkPlaces)
        /\ \A i \in OkPlaces : events[i + 1].type = "polling" /\ events[i + 1].attempt = Num(i)
        /\ LastServedStatus("completed") => Last(events).type = "completed"
        /\ LastServedStatus("failed") => Last(events).type = "failed"

\* render returned while the promise of the 'started' call was rejected and
\* the promise of the first 'polling' call is still pending.
C16_Witness ==
    /\ Len(calls) >= 3
    /\ calls[1] = "rejected"
    /\ calls[2] = "pending"
    /\ Len(served) >= 2
    /\ LastServedStatus("completed")
    /\ outcome.kind = "returned"
    /\ Last(events).type = "completed"

\* render is at its first delay while the promise of 'started' is pending.
C16_WitnessProceeds ==
    /\ calls = <<"pending">>
    /\ pc = "initialDelay"
    /\ sleeps = <<2000>>

\* The keys the caller set: those whose value is not undefined.
ExplicitlySetKeys(options) == { k \in DOMAIN options : options[k] # Undef }

\* C17: for every options object the submitted payload holds 'url' and only
\* keys the caller set (a key is set when the caller gave it a value other
\* than undefined): its keys are within the set keys and 'url', each of the
\* ten option keys is in the payload exactly when the caller set it, each
\* with the caller's value (false, 0, '' and null included, and never a
\* value the caller did not give), and a key createRender does not know is
\* not forwarded.
C17_PayloadOmission ==
    requests # <<>> =>
        LET body == requests[1].body
            options == call.options
        IN  /\ "url" \in DOMAIN body
            /\ body["url"] = Str(call.url)
            /\ DOMAIN body \subseteq ExplicitlySetKeys(options) \cup {"url"}
            /\ \A i \in 1..Len(ApiOptionKeys) :
                  ApiOptionKeys[i] \in DOMAIN body
                      <=> ApiOptionKeys[i] \in ExplicitlySetKeys(options)
            /\ \A k \in DOMAIN body \ {"url"} : body[k] = options[k]
            /\ \A k \in ForeignOptionKeys : k \notin DOMAIN body

\* A payload with falsy and null values forwarded, one screenshot key of the
\* four, and a foreign key left out.
C17_Witness ==
    /\ requests # <<>>
    /\ call.options["blockImages"] = Bool(FALSE)
    /\ call.options["captcha"] = Null
    /\ call.options["city"] = Str("")
    /\ call.options["delay"] = Num(500)
    /\ DOMAIN requests[1].body =
          {"url", "blockImages", "captcha", "city", "screenshotQuality"}
    /\ requests[1].body["screenshotQuality"] = Num(0)
    /\ requests[1].body["blockImages"] = Bool(FALSE)

\* Nothing set: the payload is { url }.
C17_WitnessBare ==
    /\ requests # <<>>
    /\ call.options = NoOptions
    /\ DOMAIN requests[1].body = {"url"}

\* A helper was called and returned: its descriptor is the waitFor option.
HelperReturned == call.options["waitFor"] # Undef

\* The descriptor the helper returned.
Descriptor == call.options["waitFor"].v[1]

\* The i-th argument was passed (undefined is the value of one that was not).
Passed(i) == i <= Len(helperCall.args) /\ helperCall.args[i] # Undef

\* C18: waitForText called without a selector returns a descriptor with no
\* 'selector' key at all: its keys are type, text and timeout, with type
\* 'text', the text passed and the timeout passed or 30000; called with a
\* selector (a non-empty string) it returns a descriptor whose 'selector'
\* is that selector.
C18_TextSelectorKey ==
    (HelperReturned /\ helperCall.fn = "waitForText") =>
        /\ ~Passed(2) =>
              /\ DOMAIN Descriptor = {"type", "text", "timeout"}
              /\ Descriptor["type"] = Str("text")
              /\ Descriptor["text"] = Arg(helperCall.args, 1)
              /\ Descriptor["timeout"] =
                    (IF Passed(3) THEN helperCall.args[3] ELSE Num(30000))
        /\ (Passed(2) /\ helperCall.args[2].t = "string" /\ helperCall.args[2] # Str("")) =>
              /\ "selector" \in DOMAIN Descriptor
              /\ Descriptor["selector"] = helperCall.args[2]

\* waitForText('Hello') returned { type, text, timeout } and the render call
\* submitted it.
C18_Witness ==
    /\ helperCall = [fn |-> "waitForText", args |-> <<Str("Hello")>>]
    /\ HelperReturned
    /\ "selector" \notin DOMAIN Descriptor
    /\ requests # <<>>
    /\ requests[1].body["waitFor"].v[1]["timeout"] = Num(30000)

\* waitForText('Hello', '.sel') returned a descriptor with the selector.
C18_WitnessSelector ==
    /\ helperCall = [fn |-> "waitForText", args |-> <<Str("Hello"), Str(".sel")>>]
    /\ HelperReturned
    /\ Descriptor["selector"] = Str(".sel")

\* C19 as stated: waitForText's descriptor has a 'selector' key exactly when
\* a selector argument was supplied, the empty string included, so that
\* waitForText(t, '') and waitForText(t) return different descriptors.
C19_Original ==
    (/\ HelperReturned
     /\ helperCall.fn = "waitForText"
     /\ Passed(2) => helperCall.args[2].t = "string") =>
        ("selector" \in DOMAIN Descriptor <=> Passed(2))

\* C19, amended: waitForText's descriptor has a 'selector' key exactly when
\* the selector supplied is truthy (a non-empty string), and the key then
\* holds that selector; an empty or null selector is left out as an absent
\* one is, so waitForText(t, '') returns what waitForText(t) returns.
C19_SelectorKeyWhenTruthy ==
    (HelperReturned /\ helperCall.fn = "waitForText") =>
        /\ "selector" \in DOMAIN Descriptor <=> Truthy(Arg(helperCall.args, 2))
        /\ "selector" \in DOMAIN Descriptor =>
              Descriptor["selector"] = helperCall.args[2]
        /\ (Passed(2) /\ helperCall.args[2] \in {Str(""), Null}) =>
              Descriptor = [type    |-> Str("text"),
                            text    |-> helperCall.args[1],
                            timeout |-> IF Passed(3) THEN helperCall.args[3]
                                        ELSE Num(30000)]

\* waitForText('Hello', '') returned a descriptor without 'selector'.
C19_Witness ==
    /\ helperCall = [fn |-> "waitForText", args |-> <<Str("Hello"), Str("")>>]
    /\ HelperReturned
    /\ DOMAIN Descriptor = {"type", "text", "timeout"}

\* The type of the descriptor each helper documents.
DocumentedType(fn) ==
    CASE fn = "waitForDelay"    -> Str("delay")
      [] fn = "waitForSelector" -> Str("selector")
      [] fn = "waitForText"     -> Str("text")
      [] fn = "waitForClick"    -> Str("click")

\* The descriptor key of each parameter of a helper, in order.
DocumentedKeys(fn) ==
    CASE fn = "waitForDelay"    -> <<"duration">>
      [] fn = "waitForSelector" -> <<"selector", "state", "timeout">>
      [] fn = "waitForText"     -> <<"text", "selector", "timeout">>
      [] fn = "waitForClick"    -> <<"selector", "timeout">>

\* The documented default of a key; a key without one is undefined when its
\* argument is not passed.
DocumentedDefault(key) ==
    CASE key = "state"   -> Str("visible")
      [] key = "timeout" -> Num(30000)
      [] OTHER           -> Undef

\* The descriptor's keys are 'type' and the keys of the helper's
\* parameters, the optional selector of waitForText only if kept(2); each
\* parameter kept holds the argument passed, each other key its default.
DescriptorAsDocumented(kept(_)) ==
    LET fn == helperCall.fn
        keys == DocumentedKeys(fn)
        optional(i) == fn = "waitForText" /\ keys[i] = "selector"
    IN  /\ DOMAIN Descriptor =
              {"type"} \cup { keys[i] : i \in { j \in 1..Len(keys) : optional(j) => kept(j) } }
        /\ Descriptor["type"] = DocumentedType(fn)
        /\ \A i \in 1..Len(keys) :
              /\ kept(i) =>
                    keys[i] \in DOMAIN Descriptor /\ Descriptor[keys[i]] = helperCall.args[i]
              /\ (~Passed(i) /\ keys[i] \in DOMAIN Descriptor) =>
                    Descriptor[keys[i]] = DocumentedDefault(keys[i])

\* Every helper call returns: no value of an argument is rejected.
HelperAlwaysReturns ==
    (pc = "idle" /\ helperCall.fn \in HelperNames /\ ~HelperReturned) => ENABLED CallHelper

\* C20 as stated: the helpers return exactly the documented descriptors with
\* the documented defaults, every argument passed is returned unchanged
\* under its key, and no value is rejected.
C20_Original ==
    /\ HelperAlwaysReturns
    /\ HelperReturned => DescriptorAsDocumented(Passed)

\* The selector of waitForText is kept when truthy; every other argument
\* passed is kept.
Kept(i) ==
    /\ Passed(i)
    /\ (helperCall.fn = "waitForText" /\ i = 2) => Truthy(helperCall.args[i])

\* C20, amended: the helpers return exactly the documented descriptors with
\* the documented defaults (waitForDelay(d) is {type 'delay', duration d};
\* waitForSelector defaults state to 'visible' and timeout to 30000;
\* waitForClick and waitForText default timeout to 30000); every argument
\* passed is returned unchanged under its key, in or out of the documented
\* ranges, except that waitForText leaves out a selector that is empty or
\* null; no value is rejected.
C20_DocumentedDescriptors ==
    /\ HelperAlwaysReturns
    /\ HelperReturned => DescriptorAsDocumented(Kept)

\* waitForClick('.sel', 0) returned timeout 0, below the documented range.
C20_Witness ==
    /\ helperCall = [fn |-> "waitForClick", args |-> <<Str(".sel"), Num(0)>>]
    /\ HelperReturned
    /\ Descriptor = [type |-> Str("click"), selector |-> Str(".sel"), timeout |-> Num(0)]

\* waitForSelector('.sel') returned the defaults 'visible' and 30000.
C20_WitnessDefaults ==
    /\ helperCall = [fn |-> "waitForSelector", args |-> <<Str(".sel")>>]
    /\ HelperReturned
    /\ Descriptor = [type |-> Str("selector"), selector |-> Str(".sel"),
                     state |-> Str("visible"), timeout |-> Num(30000)]

\* waitForDelay(70000) returned the duration, above the documented range.
C20_WitnessDelay ==
    /\ helperCall = [fn |-> "waitForDelay", args |-> <<Num(70000)>>]
    /\ HelperReturned
    /\ Descriptor = [type |-> Str("delay"), duration |-> Num(70000)]

\* A direct call of getRender was answered 2xx and is over.
GetRenderAnswered ==
    /\ "method" \in DOMAIN call
    /\ call.method = "getRender"
    /\ pc = "done"
    /\ Last(served).kind = "ok"

\* A render call was answered 'completed' and is over.
RenderAnsweredCompleted ==
    /\ "method" \in DOMAIN call
    /\ call.method = "render"
    /\ pc = "done"
    /\ served # <<>>
    /\ LastServedStatus("completed")

\* The result as the server sent it, and as the call returned it.
Wire == Last(served).body

Got == outcome.value

\* The value is base64(gzip(utf8(text))) of some text.
IsBase64Gzip(x) ==
    x.t = "string" /\ Len(x.v) >= 3 /\ x.v[1] = "base64" /\ x.v[2] = "gzip"

\* The text the value encodes.
EncodedText(x) == [t |-> "string", v |-> SubSeq(x.v, 3, Len(x.v))]

\* The value is base64(gzip(utf8(JSON(v)))) of some value v.
IsBase64GzipJson(x) == IsBase64Gzip(x) /\ Len(x.v) = 4 /\ x.v[3] = "json"

\* C21: when the html or the fetchResponses field of a fetched result is
\* not valid base64-encoded gzip data (a plain string, data under one
\* encoding only, a value that is structured already or not a string), the
\* call returns the field exactly as received and raises no error: a direct
\* getRender answered 2xx returns, and a render answered 'completed'
\* returns, whatever the fields are.
C21_DecodeFailureSwallowed ==
    (GetRenderAnswered \/ RenderAnsweredCompleted) =>
        /\ outcome.kind = "returned"
        /\ ~IsBase64Gzip(Wire.html) => Got.html = Wire.html
        /\ ~IsBase64Gzip(Wire.fetchResponses) => Got.fetchResponses = Wire.fetchResponses

\* getRender returned a plain html and a structured fetchResponses as sent.
C21_Witness ==
    /\ GetRenderAnswered
    /\ Wire.html = Str("<html></html>")
    /\ Wire.fetchResponses = Responses
    /\ outcome.kind = "returned"
    /\ Got.html = Str("<html></html>")
    /\ Got.fetchResponses = Responses

\* render returned a completed result whose html was plain.
C21_WitnessRender ==
    /\ RenderAnsweredCompleted
    /\ Wire.html = Str("<html></html>")
    /\ outcome.kind = "returned"
    /\ Got.html = Wire.html

\* C22: decoding inverts encoding: a result whose html is
\* base64(gzip(utf8(t))) is returned by getRender with html equal to t, for
\* every t (the empty text and an encoded text included: one encoding is
\* undone, no more), and a result whose fetchResponses is
\* base64(gzip(utf8(JSON(v)))) is returned with fetchResponses equal to v.
C22_DecodingInvertsEncoding ==
    GetRenderAnswered =>
        /\ outcome.kind = "returned"
        /\ IsBase64Gzip(Wire.html) => Got.html = EncodedText(Wire.html)
        /\ IsBase64GzipJson(Wire.fetchResponses) =>
              Got.fetchResponses = Wire.fetchResponses.v[4]

\* getRender undid one encoding of a twice-encoded html and returned the
\* structured fetchResponses.
C22_Witness ==
    /\ GetRenderAnswered
    /\ Wire.html = Base64Gzip(Base64Gzip(Str("<html></html>")))
    /\ Wire.fetchResponses = Base64Gzip(Json(Responses))
    /\ Got.html = Base64Gzip(Str("<html></html>"))
    /\ Got.fetchResponses = Responses

\* getRender decoded the encoding of the empty text to the empty text.
C22_WitnessEmpty ==
    /\ GetRenderAnswered
    /\ Wire.html = Base64Gzip(Str(""))
    /\ Got.html = Str("")

C23_WitnessNoStatus ==
    /\ GetRenderAnswered
    /\ Wire.status = Undef
    /\ Wire.html = Base64Gzip(Str("<html></html>"))
    /\ Got.html = Str("<html></html>")

\* render returned a completed result with both fields decoded.
C23_WitnessRender ==
    /\ RenderAnsweredCompleted
    /\ Wire.html = Base64Gzip(Str("<html></html>"))
    /\ Wire.fetchResponses = Base64Gzip(Json(Responses))
    /\ Got.html = Str("<html></html>")
    /\ Got.fetchResponses = Responses

\* A direct call of method is over.
DirectCallOver(method) ==
    /\ "method" \in DOMAIN call
    /\ call.method = method
    /\ pc = "done"

\* The answer a direct call got to its request.
DirectAnswer == IF call.method = "createRender" THEN created ELSE Last(served)

\* The error of a connection failure: the URL the call tried and the cause.
IsConnectionError(error, url, cause) ==
    /\ error[1] = "Failed to connect to "
    /\ SubSeq(error, 2, Len(url) + 1) = url
    /\ Last(error) = cause

\* The error of a non-2xx answer: the status code and the text of the body.
IsHttpError(error, status, text) ==
    /\ Len(error) = 4
    /\ error[1] # "Failed to connect to "
    /\ error[2] = ToString(status)
    /\ error[4] = text

\* C24: createRender, getRender and getAccountBalance each turn a connection
\* failure into an error carrying the URL requested and the underlying
\* cause, a non-2xx answer into an error of another kind carrying the
\* status code and the text of the body, and a 2xx answer into no error
\* and the parsed body (for getRender, with its two fields decoded).
C24_TwoErrorKinds ==
    \A method \in {"createRender", "getRender", "getAccountBalance"} :
        DirectCallOver(method) =>
            /\ Len(requests) = 1
            /\ DirectAnswer.kind = "rejected" =>
                  /\ outcome.kind = "thrown"
                  /\ IsConnectionError(outcome.error, requests[1].url, DirectAnswer.cause)
            /\ DirectAnswer.kind = "http" =>
                  /\ outcome.kind = "thrown"
                  /\ IsHttpError(outcome.error, DirectAnswer.status, DirectAnswer.text)
                  /\ outcome.error[1] =
                        (CASE method = "createRender" -> "Failed to start render: "
                           [] method = "getRender" -> "Failed to get render status: "
                           [] OTHER -> "Failed to get account balance: ")
            /\ DirectAnswer.kind = "ok" =>
                  /\ outcome.kind = "returned"
                  /\ method # "getRender" => outcome.value = DirectAnswer.body
                  /\ method = "getRender" =>
                        \A k \in DOMAIN DirectAnswer.body \ {"html", "fetchResponses"} :
                            outcome.value[k] = DirectAnswer.body[k]

\* getAccountBalance failed to connect: the error names the balance URL and
\* the cause.
C24_Witness ==
    /\ DirectCallOver("getAccountBalance")
    /\ DirectAnswer = [kind |-> "rejected", cause |-> "ETIMEDOUT"]
    /\ outcome.error = <<"Failed to connect to ", "http://localhost:3000/v1",
                         "/account/balance", ": ", "ETIMEDOUT">>

\* createRender was answered 404 with an empty body.
C24_WitnessHttp ==
    /\ DirectCallOver("createRender")
    /\ DirectAnswer = [kind |-> "http", status |-> 404, text |-> ""]
    /\ outcome.error = <<"Failed to start render: ", "404", " ", "">>

\* getAccountBalance returned the balance.
C24_WitnessOk ==
    /\ DirectCallOver("getAccountBalance")
    /\ outcome = Returned(Balance)

\* getRender was answered 500.
C24_WitnessGetRender ==
    /\ DirectCallOver("getRender")
    /\ outcome.kind = "thrown"
    /\ outcome.error = <<"Failed to get render status: ", "500", " ", "oops">>

\* The step is the constructor's: the options become a client or an error.
ConstructorStep == "options" \in DOMAIN client /\ client' # client

\* What the constructor makes of its options: no client without an apiKey
\* (absent or empty); with one, the key stored and the baseUrl given, or
\* the production default when none is given (an empty one is none).
C27_ConstructorStep ==
    ConstructorStep =>
        LET options == client.options
        IN  /\ options.apiKey \in {Undef, Str("")} =>
                  client' = [error |-> <<"API key is required">>]
            /\ options.apiKey \notin {Undef, Str("")} =>
                  /\ DOMAIN client' = {"apiKey", "baseUrl"}
                  /\ client'.apiKey = options.apiKey.v[1]
                  /\ options.baseUrl \notin {Undef, Str("")} =>
                        client'.baseUrl = options.baseUrl.v[1]
                  /\ options.baseUrl \in {Undef, Str("")} =>
                        client'.baseUrl = "https://api.browser7.com/v1"

\* Every request so far is addressed under the client's baseUrl, and there
\* is none without a client.
C27_RequestsUnderBaseUrl ==
    /\ ~IsClient => requests = <<>>
    /\ IsClient => \A i \in 1..Len(requests) : requests[i].url[1] = client.baseUrl

\* C27: constructing a client without an apiKey (absent or empty) fails
\* with 'API key is required' and yields no client; with an apiKey it
\* succeeds, stores the key, and sets baseUrl to the one supplied or to
\* 'https://api.browser7.com/v1' when none is; the client does not change
\* afterwards and every later request is addressed under its baseUrl.
C27_Constructor ==
    /\ [][C27_ConstructorStep]_vars
    /\ [][IsClient => client' = client]_vars
    /\ []C27_RequestsUnderBaseUrl

\* A client built with a baseUrl of its own fetched a render under it.
C27_Witness ==
    /\ client = [apiKey |-> "key", baseUrl |-> "http://localhost:3000/v1"]
    /\ requests = << Get(<<"http://localhost:3000/v1", "/renders/", "r1">>) >>

\* The constructor threw.
C27_WitnessNoKey ==
    /\ client = [error |-> <<"API key is required">>]
    /\ requests = <<>>

\* A client built without a baseUrl submitted a job to the default one.
C27_WitnessDefault ==
    /\ IsClient
    /\ requests # <<>>
    /\ requests[1].method = "POST"
    /\ requests[1].url = <<"https://api.browser7.com/v1", "/renders">>

\* C29: getRender's decoder changes nothing but html and fetchResponses:
\* the result returned has the keys of the result received and every other
\* field (status, retryAfter, error) as received; a falsy field (absent or
\* '') stays as it is; and the two fields are decoded independently: html
\* is decoded when it is valid whether or not fetchResponses decodes, and
\* fetchResponses is decoded when it is valid whether or not html decodes.
C29_DecoderFrame ==
    GetRenderAnswered =>
        /\ outcome.kind = "returned"
        /\ DOMAIN Got = DOMAIN Wire
        /\ \A k \in DOMAIN Wire \ {"html", "fetchResponses"} : Got[k] = Wire[k]
        /\ Wire.html \in {Undef, Str("")} => Got.html = Wire.html
        /\ Wire.fetchResponses \in {Undef, Str("")} =>
              Got.fetchResponses = Wire.fetchResponses
        /\ IsBase64Gzip(Wire.html) => Got.html = EncodedText(Wire.html)
        /\ IsBase64GzipJson(Wire.fetchResponses) => Got.fetchResponses.t = "array"

\* html failed to decode and was left; fetchResponses was decoded all the
\* same.
C29_Witness ==
    /\ GetRenderAnswered
    /\ Wire.html = Base64(Str("<html></html>"))
    /\ Wire.fetchResponses = Base64Gzip(Json(Responses))
    /\ Got.html = Wire.html
    /\ Got.fetchResponses = Responses
    /\ Got.retryAfter = Num(2)
    /\ Got.error = Str("blocked")

\* html was decoded; fetchResponses failed to decode and was left.
C29_WitnessOtherWay ==
    /\ GetRenderAnswered
    /\ Wire.html = Base64Gzip(Str("<html></html>"))
    /\ Wire.fetchResponses = Json(Responses)
    /\ Got.html = Str("<html></html>")
    /\ Got.fetchResponses = Wire.fetchResponses

\* C30: when fetchResponses base64-decodes and gunzips but the text is not
\* JSON, the field returned is the raw value received (not the decompressed
\* text, not a part of it) and no error is raised, by getRender and by
\* render alike.
C30_MalformedJsonLeftRaw ==
    /\ (GetRenderAnswered \/ RenderAnsweredCompleted) =>
          ((IsBase64Gzip(Wire.fetchResponses) /\ ~IsBase64GzipJson(Wire.fetchResponses)) =>
              /\ outcome.kind = "returned"
              /\ Got.fetchResponses = Wire.fetchResponses)

\* getRender returned the raw fetchResponses whose text is not JSON, and
\* decoded the html beside it.
C30_Witness ==
    /\ GetRenderAnswered
    /\ Wire.fetchResponses = Base64Gzip(Str("not json"))
    /\ Wire.html = Base64Gzip(Str("<html></html>"))
    /\ outcome.kind = "returned"
    /\ Got.fetchResponses = Base64Gzip(Str("not json"))
    /\ Got.html = Str("<html></html>")

\* render returned a completed result with such a fetchResponses.
C30_WitnessRender ==
    /\ RenderAnsweredCompleted
    /\ Wire.fetchResponses = Base64Gzip(Str("not json"))
    /\ outcome.kind = "returned"
    /\ Got.fetchResponses = Wire.fetchResponses

\* The i-th status fetch was answered 2xx with a status that is neither
\* 'completed' nor 'failed', and the callback returned from its 'polling'.
OtherStatusAt(i) ==
    /\ served[i].kind = "ok"
    /\ served[i].body.status \notin {Str("completed"), Str("failed")}
    /\ calls[i + 1] # "throws"

\* C28: only the exact statuses 'completed' and 'failed' are terminal.  A
\* poll answered with any other status ('processing', an unknown string,
\* 'Completed', no status) emits 'polling' with that status, sleeps
\* and goes on to the next poll (to the timeout after the 60th); it never
\* makes render return or fail with 'Render failed'.  render returns only
\* on 'completed' and raises 'Render failed' only on 'failed'.
C28_OnlyExactStatusesTerminal ==
    /\ \A i \in 1..Len(served) :
          OtherStatusAt(i) =>
              /\ events[i + 1].type = "polling"
              /\ events[i + 1].status = served[i].body.status
              /\ Len(events) = i + 1 \/ events[i + 2].type = "polling"
              /\ Len(sleeps) >= i + 1
              /\ i = Len(served) =>
                    \/ pc = "sleeping" /\ outcome.kind = "pending"
                    \/ pc = "awaitFetch" /\ Len(StatusFetches) = i + 1
                    \/ i = 60 /\ outcome = Thrown(<<"Render timed out after ", "60", " attempts">>)
    /\ outcome.kind = "returned" => LastServedStatus("completed")
    /\ (outcome.kind = "thrown" /\ outcome.error[1] = "Render failed: ")
          => LastServedStatus("failed")

\* Polls answered 'Completed' and then without a status: render sleeps
\* before its third poll.
C28_Witness ==
    /\ Len(served) = 2
    /\ served[1] = Ok(Result(Str("Completed"), Undef, Undef, Undef))
    /\ served[2] = Ok(Result(Undef, Undef, Undef, Undef))
    /\ pc = "sleeping"
    /\ Len(events) = 3
    /\ events[2].status = Str("Completed")
    /\ events[3].status = Undef
    /\ sleeps = <<2000, 1000, 1000>>

\* Sixty polls answered 'queued': the timeout.
C28_WitnessTimeout ==
    /\ Len(served) = 60
    /\ \A i \in 1..60 : served[i] = Ok(Result(Str("queued"), Undef, Undef, Undef))
    /\ outcome = Thrown(<<"Render timed out after ", "60", " attempts">>)


\* What one invocation of render shows: its own requests, answers, callback
\* calls, events, loop variable and outcome.  AtGunzip: getRender has the
\* latest answer and has not returned yet.
AtGunzip(inv) == inv.pc \in {"gunzipHtml", "gunzipFetchResponses"}

StatusFetchesOf(inv) == SelectSeq(inv.requests, LAMBDA r : r.method = "GET")

ThrewIn(inv) == \E i \in 1..Len(inv.calls) : inv.calls[i] = "throws"

\* The results getRender has returned to this invocation.
ResultsOf(inv) ==
    LET n == IF AtGunzip(inv) \/ (inv.served # <<>> /\ Last(inv.served).kind # "ok")
             THEN Len(inv.served) - 1 ELSE Len(inv.served)
    IN  [i \in 1..n |-> Decoded(inv.served[i].body)]

IsTerminal(result) == result.status \in {Str("completed"), Str("failed")}

\* The events a call alone reports for these answers, were no callback
\* call to throw.
EventsAlone(inv) ==
    LET id == inv.created.body.renderId
        results == ResultsOf(inv)
        polls == [i \in 1..Len(results) |->
                    [type |-> "polling", renderId |-> id, status |-> results[i].status,
                     attempt |-> Num(i), retryAfter |-> results[i].retryAfter]]
        last == IF results = <<>> \/ ~IsTerminal(Last(results)) THEN <<>>
                ELSE <<[type |-> Last(results).status.v[1], renderId |-> id,
                        status |-> Last(results).status, attempt |-> Undef,
                        retryAfter |-> Undef]>>
    IN  IF inv.created.kind # "ok" THEN <<>>
        ELSE <<StartedEvent(id)>> \o polls \o last

\* The outcome a call alone has for these answers and callback calls.
OutcomeAlone(inv) ==
    LET results == ResultsOf(inv)
    IN  IF ThrewIn(inv) THEN Thrown(CallbackError)
        ELSE IF inv.created.kind = "rejected"
        THEN Thrown(<<"Failed to connect to ">> \o RendersUrl \o <<": ", inv.created.cause>>)
        ELSE IF inv.created.kind = "http"
        THEN Thrown(<<"Failed to start render: ", ToString(inv.created.status), " ",
                      inv.created.text>>)
        ELSE IF inv.served # <<>> /\ Last(inv.served).kind = "rejected"
        THEN Thrown(<<"Failed to connect to ">> \o StatusUrl(inv.created.body.renderId)
                      \o <<": ", Last(inv.served).cause>>)
        ELSE IF inv.served # <<>> /\ Last(inv.served).kind = "http"
        THEN Thrown(<<"Failed to get render status: ", ToString(Last(inv.served).status),
                      " ", Last(inv.served).text>>)
        ELSE IF results # <<>> /\ Last(results).status = Str("completed")
        THEN Returned(Last(results))
        ELSE IF results # <<>> /\ Last(results).status = Str("failed")
        THEN Thrown(RenderFailedError(Last(results)))
        ELSE Pending

\* This invocation is where a call alone is after the same answers.
RanAlone(inv) ==
    /\ inv.pc # "idle" =>
          /\ inv.requests[1] = Post(RendersUrl, Payload(inv.call.url, inv.call.options))
          /\ Len(StatusFetchesOf(inv)) = Len(inv.requests) - 1
    /\ \A i \in 1..Len(StatusFetchesOf(inv)) :
          StatusFetchesOf(inv)[i] = Get(StatusUrl(inv.created.body.renderId))
    /\ inv.renderId = IF inv.created.kind = "ok" THEN inv.created.body.renderId ELSE Undef
    /\ inv.attempt = IF StatusFetchesOf(inv) = <<>> THEN 0 ELSE Len(StatusFetchesOf(inv)) - 1
    /\ Len(StatusFetchesOf(inv)) = Len(inv.served) + (IF inv.pc = "awaitFetch" THEN 1 ELSE 0)
    /\ inv.events = IF ThrewIn(inv) THEN SubSeq(EventsAlone(inv), 1, Len(inv.calls))
                    ELSE EventsAlone(inv)
    /\ inv.outcome = OutcomeAlone(inv)
    /\ (inv.pc = "done") = (inv.outcome # Pending)

\* C25: several render calls running at once on one client, interleaved in
\* any way at their awaits, do not interfere.  No step changes the client's
\* apiKey or baseUrl; and each call's loop variable, the renderId it polls,
\* the events it reports and its outcome are those of a call running alone
\* that got the same answers from the server and from its callback.
C25_NoInterference ==
    /\ [][client' = client]_vars
    /\ [](RanAlone(Locals) /\ RanAlone(suspended))

\* Two calls in flight, each in its own poll of its own job.
C25_Witness ==
    /\ pc = "sleeping" /\ attempt = 1
    /\ suspended.pc = "awaitFetch" /\ suspended.attempt = 0
    /\ renderId # suspended.renderId
    /\ call.url # suspended.call.url
    /\ client = [apiKey |-> "key", baseUrl |-> DefaultBaseUrl]

\* Both calls over, one with the page and one with its job's failure, after
\* different numbers of polls.
C25_WitnessBothDone ==
    /\ pc = "done" /\ outcome.kind = "returned" /\ attempt = 2
    /\ suspended.pc = "done" /\ suspended.outcome.kind = "thrown" /\ suspended.attempt = 0
    /\ suspended.outcome.error[1] = "Render failed: "
    /\ Len(events) = 5 /\ Len(suspended.events) = 3


\* The await expressions of render and of the createRender and getRender it
\* calls, as the claim lists them: the network calls and the two delays.
\* An invocation that has not begun or is over is at none.
ClaimedYieldPoints == {"awaitCreate", "awaitFetch", "initialDelay", "sleeping"}

NotRunning == {"idle", "done"}

\* C26 as claimed: within a render call, the initial delay, the inter-poll
\* delays and the network calls are the only points at which the invocation
\* yields control to other invocations; the invocation the other one runs
\* in place of is never in the middle of decoding a fetched result.
C26_Original == suspended.pc \in ClaimedYieldPoints \cup NotRunning

\* C26 as amended: the invocation yields at the initial delay, at the
\* inter-poll delays, at the network calls and, while decoding a fetched
\* result, at the gunzip of a non-empty html or fetchResponses field, and
\* nowhere else: not at a progress callback, and not in the decoding of a
\* result whose fields are absent or empty.
C26_YieldPoints ==
    /\ suspended.pc \in ClaimedYieldPoints \cup NotRunning
                          \cup {"gunzipHtml", "gunzipFetchResponses"}
    /\ Len(suspended.calls) = Len(suspended.events)
    /\ suspended.pc = "gunzipHtml" =>
          /\ Last(suspended.served).kind = "ok"
          /\ Last(suspended.served).body.html \notin {Undef, Str("")}
          /\ Len(suspended.events) = Len(suspended.served)
    /\ suspended.pc = "gunzipFetchResponses" =>
          /\ Last(suspended.served).kind = "ok"
          /\ Last(suspended.served).body.fetchResponses \notin {Undef, Str("")}
          /\ Len(suspended.events) = Len(suspended.served)
    /\ suspended.pc \in ClaimedYieldPoints /\ suspended.served # <<>> =>
          Len(suspended.events) > Len(suspended.served)

\* One invocation waits for the gunzip of html while the other one, begun
\* on the same client, waits for the answer to its POST.
C26_Witness ==
    /\ suspended.pc = "gunzipHtml"
    /\ Last(suspended.served).body.html = Base64Gzip(Str("<html></html>"))
    /\ pc = "awaitCreate"

\* The same at the gunzip of fetchResponses, of a result without html.
C26_WitnessFetchResponses ==
    /\ suspended.pc = "gunzipFetchResponses"
    /\ Last(suspended.served).body.html = Undef
    /\ pc = "sleeping"

\* A result with an empty html and no fetchResponses was decoded without
\* yielding: the invocation was next suspended when over.
C26_WitnessNoYield ==
    /\ suspended.pc = "done"
    /\ suspended.served # <<>>
    /\ Last(suspended.served).kind = "ok"
    /\ Last(suspended.served).body.html = Str("")
    /\ Last(suspended.served).body.fetchResponses = Undef
    /\ suspended.outcome.kind = "returned"
    /\ pc = "awaitFetch"


\* A status fetch of this call was answered 2xx with this status.
ServedStatus(status) ==
    \E j \in 1..Len(served) : served[j].kind = "ok" /\ served[j].body.status = Str(status)

\* An event of this type was reported.
Emitted(type) == \E i \in 1..Len(events) : events[i].type = type

\* The call ended by the timeout, or by a transport error.
TimedOut == outcome = Thrown(TimeoutError)

TransportFailed ==
    /\ outcome.kind = "thrown"
    /\ outcome.error[1] \in {"Failed to connect to ", "Failed to start render: ",
                             "Failed to get render status: "}

\* C31: a terminal event is emitted only for a terminal status reported by
\* the server: 'completed' only if a status fetch of this call returned
\* 'completed', 'failed' only if one returned 'failed'.  A call that ended
\* by the timeout or by a transport error has emitted neither, and a call
\* ended by a throwing callback has emitted none but the one of the status
\* the server reported last.
C31_TerminalEventOnlyForTerminalStatus ==
    /\ Emitted("completed") => ServedStatus("completed") /\ LastServedStatus("completed")
    /\ Emitted("failed") => ServedStatus("failed") /\ LastServedStatus("failed")
    /\ (TimedOut \/ TransportFailed) => ~Emitted("completed") /\ ~Emitted("failed")
    /\ (CallbackThrew /\ ~LastServedStatus("completed")) => ~Emitted("completed")
    /\ (CallbackThrew /\ ~LastServedStatus("failed")) => ~Emitted("failed")

\* A call with a callback whose third status fetch the server refused: it
\* is over with the polling events only.
C31_Witness ==
    /\ onProgress
    /\ pc = "done"
    /\ Len(served) = 3
    /\ Last(served).kind = "http"
    /\ TransportFailed
    /\ Len(events) = 3
    /\ Last(events).type = "polling"

\* The same for a timed-out call, ...
C31_WitnessTimeout ==
    onProgress /\ TimedOut /\ Len(events) = 61 /\ Last(events).type = "polling"

\* ... for a callback that threw on the polling event of a completed job, ...
C31_WitnessThrow ==
    /\ CallbackThrew
    /\ LastServedStatus("completed")
    /\ Last(events).type = "polling"

\* ... and a call that reported the server's 'failed'.
C31_WitnessFailed ==
    /\ Emitted("failed")
    /\ LastServedStatus("failed")
    /\ outcome.kind = "thrown"
    /\ outcome.error[1] = "Render failed: "


\* The timeout error is raised in this step.
TimeoutRaised == outcome # Thrown(TimeoutError) /\ outcome' = Thrown(TimeoutError)

\* In a timed-out call: the 2000 ms delay, then one delay after each of the
\* 60 polls, the last one included.
SleepsOfTimeout ==
    /\ Len(sleeps) = 61
    /\ sleeps[1] = 2000
    /\ \A i \in 1..60 :
          sleeps[i + 1] = IF served[i].body.retryAfter \in {Undef, Num(0)} THEN 1000
                          ELSE served[i].body.retryAfter.v * 1000

\* C32: on the timeout path the inter-poll delay is taken after the 60th
\* non-terminal poll too, before the timeout error is raised.  A timed-out
\* render has slept 61 times (the initial 2000 ms and once after each of the
\* 60 polls), after the 60th answer it is asleep with no error yet, and the
\* error is raised by the step in which that last sleep ends.
C32_SleepsBeforeTimeout ==
    /\ [](TimedOut => SleepsOfTimeout /\ Len(served) = 60)
    /\ [](Len(served) = 60 /\ pc = "sleeping" =>
             outcome = Pending /\ Len(sleeps) = 61 /\ attempt = 59)
    /\ [][TimeoutRaised =>
             /\ pc = "sleeping"
             /\ Len(sleeps) = 61
             /\ Len(served) = 60
             /\ UNCHANGED <<sleeps, served, requests, events>>]_vars

\* After the 60th poll, answered 'processing', render sleeps; no error yet.
C32_WitnessAsleep ==
    /\ Len(served) = 60
    /\ pc = "sleeping"
    /\ Len(sleeps) = 61
    /\ outcome = Pending

\* The 61st sleep is over and the timeout error raised; the first poll
\* carried a hint of 2 s.
C32_Witness ==
    /\ TimedOut
    /\ pc = "done"
    /\ Len(sleeps) = 61
    /\ sleeps[2] = 2000
    /\ sleeps[61] = 1000
    /\ Len(StatusFetches) = 60


\* The renderId the job submission of this call returned.
SubmittedId == created.body.renderId

\* C33: within one render call every status fetch is addressed to, and
\* every emitted event carries, the renderId returned by the call's single
\* job submission, and the renderId never changes during the call: there is
\* no status fetch and no event before the submission is answered, and once
\* render holds a renderId no step replaces it.
C33_OneRenderId ==
    /\ [](Len(Submissions) <= 1)
    /\ [](~Submitted => StatusFetches = <<>> /\ events = <<>> /\ renderId = Undef)
    /\ [](Submitted =>
             /\ renderId = SubmittedId
             /\ \A i \in 1..Len(StatusFetches) :
                   StatusFetches[i].url = <<client.baseUrl, "/renders/">> \o SubmittedId.v
             /\ \A i \in 1..Len(events) : events[i].renderId = SubmittedId)
    /\ [][renderId # Undef => renderId' = renderId /\ created' = created]_vars

\* A call for job r2, over after three polls: three fetches and five events,
\* all of r2.
C33_Witness ==
    /\ Submitted
    /\ SubmittedId = Str("r2")
    /\ pc = "done"
    /\ Len(StatusFetches) = 3
    /\ StatusFetches[3].url = <<"https://api.browser7.com/v1", "/renders/", "r2">>
    /\ Len(events) = 5
    /\ Last(events).type = "completed"
    /\ Last(events).renderId = Str("r2")


\* The status fetch answered i-th was answered with a non-terminal status
\* and no retry hint, and render went on to wait.
NoHintAt(i) ==
    /\ served[i].kind = "ok"
    /\ served[i].body.status \notin {Str("completed"), Str("failed")}
    /\ served[i].body.retryAfter = Undef
    /\ Len(sleeps) >= i + 1

\* The parts of C34 about maxAttempts: at most maxAttempts status fetches
\* are issued, and the timeout error names maxAttempts.
MaxAttemptsAsDocumented ==
    /\ Len(StatusFetches) <= maxAttemptsArg
    /\ (pc = "done" /\ Submitted /\ AllNonTerminal /\ ~CallbackThrew) =>
          /\ Len(StatusFetches) = maxAttemptsArg
          /\ outcome = Thrown(<<"Render timed out after ", ToString(maxAttemptsArg), " attempts">>)

\* C34: in the single-file variant render(url, options, pollInterval,
\* maxAttempts), pollInterval is the polling interval and maxAttempts the
\* maximum number of polling attempts: the delay between two polls when the
\* server suggests none equals pollInterval, at most maxAttempts status
\* fetches are issued, and the timeout error names maxAttempts.
C34_ParametersAsDocumented ==
    /\ \A i \in 1..Len(served) : NoHintAt(i) => sleeps[i + 1] = pollInterval
    /\ MaxAttemptsAsDocumented

====
